---- MODULE Spec2Model ----
(***************************************************************************)
(* A model of bolt.diy's deployment orchestrator (routes/api.deploy-docker), *)
(* the one-click deploy button, the parser-to-workbench glue and the        *)
(* buffered LLM stream (stream-text).  Text is a sequence of tokens; a      *)
(* phrase is a sequence of tokens that may arrive split over two chunks.    *)
(***************************************************************************)
EXTENDS Integers, Sequences, FiniteSets, TLC

(***************************************************************************)
(* Bounds of the model.                                                    *)
(***************************************************************************)
NumInv == 2        \* deploy/build invocations of the server
MaxClock == 1      \* Date.now() takes the values 0..MaxClock
MaxChunks == 2     \* stdout/stderr data events delivered in one run
MaxModelChunks == 2 \* chunks the model stream yields
NumMsgs == 2       \* messages of the conversation
MaxTextLen == 6    \* tokens of message text in the whole conversation
MaxGrow == 4       \* messages and tokens added between two calls of parseMessages
MaxParseCalls == 2 \* calls of parseMessages
MaxTitleLen == 2   \* characters of an artifact title
MaxRefresh == 2    \* preview refreshes
MaxFiles == 2      \* files of a package request
MaxLogLen == 2     \* tokens of deploy log the client reads from the response
NumPosts == 2      \* POST requests to the analytics endpoint
MaxHtmlLen == 3    \* tokens of a submitted index.html, a tracker apart
MaxDockerLines == 2 \* instructions of a submitted Dockerfile
MaxDetections == 2 \* calls of detectProject on one snapshot
MaxOtherFiles == 2 \* files of a snapshot besides package.json
MaxStarts == 2     \* poll loops a FileWatcher starts
MaxEdits == 1      \* changes to the watched files
MaxWatchTime == 5  \* ticks of the FileWatcher's clock
MaxBodyLen == 2    \* chunks of a response body a client handler reads

Inv == 1..NumInv

(***************************************************************************)
(* Text helpers: String.prototype.includes over token sequences.           *)
(***************************************************************************)
Includes(text, phrase) ==
    \E k \in 0..(Len(text) - Len(phrase)) :
        SubSeq(text, k + 1, k + Len(phrase)) = phrase

IsPrefix(p, q) == Len(p) <= Len(q) /\ SubSeq(q, 1, Len(p)) = p

(***************************************************************************)
(* Submitted files: a set of relative paths, each a sequence of segments.  *)
(* Writing them fails when one path is a file and also a directory that    *)
(* another path needs (mkdir or writeFile throws EEXIST / EISDIR).         *)
(***************************************************************************)
FileSets ==
    { {<<"Dockerfile">>},
      {<<"Dockerfile">>, <<"a">>, <<"a", "b">>} }

WriteThrows(files) ==
    \E p \in files, q \in files : p # q /\ IsPrefix(p, q)

(***************************************************************************)
(* The requests the route's action receives, and where it sends them.      *)
(* bodyIsJson is FALSE when request.json() throws; imageName and files     *)
(* say whether the body carries a truthy field of that name.               *)
(***************************************************************************)
Methods == { "POST", "PUT" }

DeployActions == { "package", "build", "fly-deploy", "run" }

Requests ==
    [ method : Methods, bodyIsJson : BOOLEAN, imageName : BOOLEAN,
      files : BOOLEAN, action : DeployActions ]

NoRequest ==
    [ method |-> "none", bodyIsJson |-> FALSE, imageName |-> FALSE,
      files |-> FALSE, action |-> "none" ]

Dispatch_ValidatesBodyFirst(r) ==
    IF ~r.bodyIsJson THEN "json500"
    ELSE IF ~r.imageName \/ ~r.files THEN "json400"
    ELSE IF r.method # "POST" THEN "json405"
    ELSE IF r.action = "package" THEN "handlePackage"
    ELSE IF r.action = "build" THEN "handleBuild"
    ELSE IF r.action = "fly-deploy" THEN "handleFlyDeploy"
    ELSE "json400"

Dispatch(r) ==
    IF r.method # "POST" THEN "json405"
    ELSE IF ~r.bodyIsJson THEN "json500"
    ELSE IF ~r.imageName \/ ~r.files THEN "json400"
    ELSE IF r.action = "package" THEN "handlePackage"
    ELSE IF r.action = "build" THEN "handleBuild"
    ELSE IF r.action = "fly-deploy" THEN "handleFlyDeploy"
    ELSE "json400"

(***************************************************************************)
(* Temporary build directories: join(tmpdir(), prefix + Date.now()).       *)
(***************************************************************************)
NoDir == [prefix |-> "none", t |-> 0]

BuildDirName(prefix, t) == [prefix |-> prefix, t |-> t]

(***************************************************************************)
(* Subprocess output.                                                      *)
(***************************************************************************)
AlreadyExists == <<"already ", "exists">>

SuccessPhrases ==
    { <<"has been ", "deployed">>,
      <<"deployed ", "successfully">>,
      <<"Machines are ", "starting">>,
      <<"Visit your ", "newly deployed app">> }

\* chunks flyctl apps create may write: other text on either pipe; on
\* stderr also the 'already exists' error, whole or cut in two
CreateStdoutChunks == { <<"x">> }
CreateStderrChunks == { <<"x">>, AlreadyExists, <<"already ">>, <<"exists">> }

\* chunks a flyctl deploy may write: other text, a whole success phrase,
\* or one half of the first phrase
DeployChunks ==
    { <<"x">> } \cup SuccessPhrases \cup { <<"has been ">>, <<"deployed">> }

ExitCodes == {0, 1}
SpawnErrno == 0 - 2      \* 'close' after a failed spawn carries -errno

\* a subprocess event as the handlers see it
NoEvent == [ev |-> "none", code |-> 0]
CloseEvent(code) == [ev |-> "close", code |-> code]
ErrorEvent == [ev |-> "error", code |-> 0]

(***************************************************************************)
(* Log lines written by the orchestrator itself.                           *)
(***************************************************************************)
CreateHeader == << "[1/3] Creating Fly.io app", "Detected internal port" >>
ReuseMessage == << "already exists, reusing it." >>
DeployHeader == << "[2/3] Deploying to Fly.io", "Using Dockerfile from project." >>
SuccessBlock ==
    << "[3/3] Deployment complete!", "App deployed successfully to Fly.io",
       "URL", "Dashboard", "To check status", "To view logs" >>
FailedLine(msg) == << "Deployment failed: ", msg >>
Troubleshooting ==
    << "Troubleshooting:", "1. flyctl auth login", "2. flyctl apps list",
       "3. Check your Dockerfile" >>
NotCompleteMsg == "flyctl exited but deployment did not complete."
ExitCodeMsg == "flyctl deploy exited with code"
SpawnErrorMsg == "spawn error"
BuildSuccessBlock == << "Image built successfully.", "To run", "To save" >>
BuildFailedLine == << "Build failed with exit code" >>
BuildErrorLine == << "ERROR: Make sure Docker is installed and running." >>

VARIABLES
    now,          \* Date.now()
    fsDirs,       \* the temporary directories that exist on disk
    pc,           \* position of each invocation's handler
    kind,         \* "build" | "fly-deploy"
    files,        \* the submitted file set
    buildDir,     \* the invocation's temporary directory
    resp,         \* "none" | "stream" | "gzip" | "json405" | "json400" | "json500"
    ctrl,         \* ReadableStream controller: "none" | "open" | "closed"
    log,          \* everything enqueued on the controller
    deployOutput, \* accumulated stdout+stderr of flyctl deploy
    createApp,    \* subprocess state: "none" | "running" | "errored" | "closed"
    deploy,
    dockerBuild,
    createExit,   \* the event that ended the wait for flyctl apps create
    deployExit,   \* the event that settled the flyctl deploy promise
    rmPending,    \* an rm() started but not awaited (handleBuild 'error')
    uncaught,     \* invocations in which a handler threw out of an event
    chunksLeft,   \* data events still to deliver
    request,      \* the HTTP request the invocation received
    flyctl        \* execSync('flyctl version'): "unprobed" | "found" | "missing"

deployVars ==
    << now, fsDirs, pc, kind, files, buildDir, resp, ctrl, log, deployOutput,
       createApp, deploy, dockerBuild, createExit, deployExit, rmPending,
       uncaught, chunksLeft, request, flyctl >>

\* streamText (stream-text.ts): the buffering producer and one consumer
VARIABLES
    chunks,              \* const chunks: string[]
    streamComplete,
    streamError,         \* TRUE when streamError holds an Error
    foundArtifactStart,
    accumulatedText,
    yielded,             \* chunks the model stream has yielded so far
    modelText,           \* everything the model stream has yielded so far
    consumer,            \* which method of the result was called, or "none"
    index,               \* the consumer's let index
    cpc,                 \* "notStarted" | "sleeping" | "returned"
    delivered,           \* what the consumer wrote or enqueued
    outcome              \* "open" | "closed" | "errored"

streamVars ==
    << chunks, streamComplete, streamError, foundArtifactStart,
       accumulatedText, yielded, modelText, consumer, index, cpc, delivered,
       outcome >>

\* useMessageParser: the conversation, the parser and the workbench calls
VARIABLES
    dev,            \* import.meta.env.DEV
    messages,       \* the text of each message of the conversation, in order
    parserState,    \* messageParser: per message id, where parsing stands
    parsedMessages, \* React state: index -> visible text
    events,         \* every parser callback invoked so far
    calls,          \* every workbenchStore call made so far
    parseCalls,     \* calls of parseMessages so far
    idleParsed      \* some call had isLoading = false

glueVars ==
    << dev, messages, parserState, parsedMessages, events, calls, parseCalls,
       idleParsed >>

\* DeployButton: the one-click deploy of one chat
VARIABLES
    deployedUrl,        \* chatMetadata.deployedUrl
    firstUrl,           \* the first deployedUrl the chat got
    hpc,                \* where handleOneClickDeploy stands
    currentMetadata,    \* the deployedUrl the running handler closed over
    flyAppName,         \* the name the handler sent
    deployStatus,
    showDeployProgress,
    deployedAppUrl,
    refreshSignal,
    deployedAtSignal,
    deployLog,          \* the log shown in the dialog
    fullLog,            \* the response text read so far
    deployError,        \* the message of the error the handler caught
    deployedAt,         \* chatMetadata.deployedAt: 0 for none, else the number of the update
    atClick,            \* the metadata and the lock when the last click was made
    collectedAt,        \* refreshSignal when handleDockerDeploy returned the files
    deployedFrom        \* collectedAt of the last successful deploy, -1 for none

clientVars ==
    << deployedUrl, firstUrl, hpc, currentMetadata, flyAppName, deployStatus,
       showDeployProgress, deployedAppUrl, refreshSignal, deployedAtSignal,
       deployLog, fullLog, deployError, deployedAt, atClick, collectedAt,
       deployedFrom >>

\* handlePackage: the last package request
VARIABLES
    pkgFiles,       \* Object.entries(files): path and content bytes, in order
    pkgTimes,       \* Math.floor(Date.now() / 1000) at each createTarHeader
    tarBuffer,      \* the archive before compression
    pkgResp         \* the response

packageVars == << pkgFiles, pkgTimes, tarBuffer, pkgResp >>

\* api.analytics: the event store of one app and the requests to it
VARIABLES
    inMemoryStore,  \* the array stored for the app, 0 when there is none
    heap,           \* the arrays: array -> events
    dataFile,       \* the JSON file of the app
    apc,            \* where each POST stands
    appParam,       \* the app parameter of each POST
    postEvents,        \* the array each POST got from readEvents
    status,         \* the status each POST was answered with, 0 before
    gpc,            \* where the GET stands
    totalViews      \* the totalViews of the last GET answered, -1 before

analyticsVars ==
    << inMemoryStore, heap, dataFile, apc, appParam, postEvents, status, gpc, totalViews >>

\* handleFlyDeploy: what one request submitted and what is written to disk
VARIABLES
    submitted,   \* files, flyAppName and boltUrl of the request
    flyFiles,     \* the files object when the write loop runs
    prepPc       \* "idle" | "written"

prepareVars == << submitted, flyFiles, prepPc >>

\* detectProject: one file snapshot and the detections made from it
VARIABLES
    snapshot,    \* the collected files, << >> before they are collected
    detections   \* what each call of detectProject returned, in order

detectVars == << snapshot, detections >>

\* FileWatcher (file-watcher.ts): one watcher, its poll loops and its timers
VARIABLES
    debounceMs,       \* _options.debounceMs in ticks, 0 before construction
    isWatching,       \* _isWatching
    debounceTimer,    \* due time of the pending debounce timer, NoTimer if none
    abortController,  \* 0 for null, else the number of the controller
    aborted,          \* controllers whose abort() was called
    loops,            \* the poll closures created by _pollForChanges
    fsFiles,          \* the WebContainer file system: path -> content
    wnow,             \* the clock, in ticks of 500 ms
    restarts,         \* the onRestart calls made: when, and _isWatching then
    detects,          \* the times at which _triggerRestart was called
    cancelled,        \* the due times of the debounce timers stop() cleared
    edits             \* changes made to the file system so far

watchVars ==
    << debounceMs, isWatching, debounceTimer, abortController, aborted, loops,
       fsFiles, wnow, restarts, detects, cancelled, edits >>

\* the client handlers that stream a server log: one run of one handler
VARIABLES
    handler,        \* "oneClick" | "buildImage" | "deployToFly" | "none"
    httpResponse,   \* what fetch resolved to
    chunksRead,     \* chunks of the body reader.read() has given
    handlerLog,     \* the text read from the body
    handlerStatus,  \* deployStatus / buildStatus / flyDeployStatus
    handlerPc       \* where the handler stands

handlerVars ==
    << handler, httpResponse, chunksRead, handlerLog, handlerStatus, handlerPc >>

vars == << deployVars, streamVars, glueVars, clientVars, packageVars, analyticsVars, prepareVars, detectVars, watchVars, handlerVars >>

notDeployVars == << streamVars, glueVars, clientVars, packageVars, analyticsVars, prepareVars, detectVars, watchVars, handlerVars >>
notStreamVars == << deployVars, glueVars, clientVars, packageVars, analyticsVars, prepareVars, detectVars, watchVars, handlerVars >>
notGlueVars == << deployVars, streamVars, clientVars, packageVars, analyticsVars, prepareVars, detectVars, watchVars, handlerVars >>
notClientVars == << deployVars, streamVars, glueVars, packageVars, analyticsVars, prepareVars, detectVars, watchVars, handlerVars >>
notPackageVars == << deployVars, streamVars, glueVars, clientVars, analyticsVars, prepareVars, detectVars, watchVars, handlerVars >>
notAnalyticsVars == << deployVars, streamVars, glueVars, clientVars, packageVars, prepareVars, detectVars, watchVars, handlerVars >>
notPrepareVars == << deployVars, streamVars, glueVars, clientVars, packageVars, analyticsVars, detectVars, watchVars, handlerVars >>
notDetectVars == << deployVars, streamVars, glueVars, clientVars, packageVars, analyticsVars, prepareVars, watchVars, handlerVars >>
notWatchVars == << deployVars, streamVars, glueVars, clientVars, packageVars, analyticsVars, prepareVars, detectVars, handlerVars >>
notHandlerVars == << deployVars, streamVars, glueVars, clientVars, packageVars, analyticsVars, prepareVars, detectVars, watchVars >>

InitDeploy ==
    /\ now = 0
    /\ fsDirs = {}
    /\ pc = [i \in Inv |-> "idle"]
    /\ kind = [i \in Inv |-> "none"]
    /\ files = [i \in Inv |-> {}]
    /\ buildDir = [i \in Inv |-> NoDir]
    /\ resp = [i \in Inv |-> "none"]
    /\ ctrl = [i \in Inv |-> "none"]
    /\ log = [i \in Inv |-> << >>]
    /\ deployOutput = [i \in Inv |-> << >>]
    /\ createApp = [i \in Inv |-> "none"]
    /\ deploy = [i \in Inv |-> "none"]
    /\ dockerBuild = [i \in Inv |-> "none"]
    /\ createExit = [i \in Inv |-> NoEvent]
    /\ deployExit = [i \in Inv |-> NoEvent]
    /\ rmPending = {}
    /\ uncaught = {}
    /\ chunksLeft = MaxChunks
    /\ request = [i \in Inv |-> NoRequest]
    /\ flyctl = [i \in Inv |-> "unprobed"]

InitStream ==
    /\ chunks = << >>
    /\ streamComplete = FALSE
    /\ streamError = FALSE
    /\ foundArtifactStart = FALSE
    /\ accumulatedText = << >>
    /\ yielded = 0
    /\ modelText = << >>
    /\ consumer = "none"
    /\ index = 0
    /\ cpc = "notStarted"
    /\ delivered = << >>
    /\ outcome = "open"

\* messageParser as constructed: no message seen
FreshParser ==
    [m \in 1..NumMsgs |-> [pos |-> 0, mode |-> "outside", artifact |-> 0, action |-> 0]]

InitGlue ==
    /\ dev \in BOOLEAN
    /\ messages = << >>
    /\ parserState = FreshParser
    /\ parsedMessages = [m \in 1..NumMsgs |-> << >>]
    /\ events = << >>
    /\ calls = << >>
    /\ parseCalls = 0
    /\ idleParsed = FALSE

\* no URL or name
NoUrl == << >>

InitClient ==
    /\ deployedUrl = NoUrl
    /\ firstUrl = NoUrl
    /\ hpc = "idle"
    /\ currentMetadata = NoUrl
    /\ flyAppName = << >>
    /\ deployStatus = "deploying"
    /\ showDeployProgress = FALSE
    /\ deployedAppUrl = NoUrl
    /\ refreshSignal = 0
    /\ deployedAtSignal = 0 - 1
    /\ deployLog = << >>
    /\ fullLog = << >>
    /\ deployError = "none"
    /\ deployedAt = 0
    /\ atClick = [deployedUrl |-> NoUrl, deployedAt |-> 0, deployedAtSignal |-> 0 - 1]
    /\ collectedAt = 0
    /\ deployedFrom = 0 - 1

InitPackage ==
    /\ pkgFiles = << >>
    /\ pkgTimes = << >>
    /\ tarBuffer = << >>
    /\ pkgResp = "none"

\* the POST requests, and the array each may create; the GET's array
Posts == 1..NumPosts
GetArray == NumPosts + 1
NoFile == [exists |-> FALSE, events |-> << >>]

InitAnalytics ==
    /\ inMemoryStore = 0
    /\ heap = [a \in 1..GetArray |-> << >>]
    /\ dataFile = NoFile
    /\ apc = [r \in Posts |-> "idle"]
    /\ appParam = [r \in Posts |-> "none"]
    /\ postEvents = [r \in Posts |-> 0]
    /\ status = [r \in Posts |-> 0]
    /\ gpc = "idle"
    /\ totalViews = 0 - 1

InitPrepare ==
    /\ submitted = [files |-> << >>, flyAppName |-> "", boltUrl |-> << >>]
    /\ flyFiles = << >>
    /\ prepPc = "idle"

InitDetect ==
    /\ snapshot = << >>
    /\ detections = << >>

NoTimer == 0 - 1

Loops == 1..MaxStarts

WatchedFile == "src/a.js"

IgnoredFile == "src/node_modules/x.js"

\* the segments of the paths the model uses
Segments ==
    (WatchedFile :> <<"src", "a.js">>) @@
    (IgnoredFile :> <<"src", "node_modules", "x.js">>)

ignorePaths == { "node_modules", ".git", "dist", "build", ".next", ".cache" }

FileContents == { <<"a">>, <<"b">>, <<"a", "b">> }

NoLoop == [pc |-> "none", due |-> 0, lastFileSnapshot |-> << >>, seen |-> << >>,
           polled |-> FALSE]

InitWatch ==
    /\ debounceMs = 0
    /\ isWatching = FALSE
    /\ debounceTimer = NoTimer
    /\ abortController = 0
    /\ aborted = {}
    /\ loops = [l \in Loops |-> NoLoop]
    /\ fsFiles = [p \in { WatchedFile } |-> <<"a">>]
    /\ wnow = 0
    /\ restarts = << >>
    /\ detects = << >>
    /\ cancelled = {}
    /\ edits = 0

NoResponse == [ok |-> TRUE, json |-> FALSE, hasBody |-> FALSE, body |-> << >>]

InitHandler ==
    /\ handler = "none"
    /\ httpResponse = NoResponse
    /\ chunksRead = 0
    /\ handlerLog = << >>
    /\ handlerStatus = "idle"
    /\ handlerPc = "idle"

Init ==
    /\ InitDeploy /\ InitStream /\ InitGlue /\ InitClient /\ InitPackage
    /\ InitAnalytics
    /\ InitPrepare
    /\ InitDetect
    /\ InitWatch
    /\ InitHandler

(***************************************************************************)
(* Date.now() advances.                                                    *)
(***************************************************************************)
Tick ==
    /\ now < MaxClock
    /\ now' = now + 1
    /\ UNCHANGED notDeployVars
    /\ UNCHANGED << request, flyctl >>
    /\ UNCHANGED << fsDirs, pc, kind, files, buildDir, resp, ctrl, log,
                    deployOutput, createApp, deploy, dockerBuild, createExit,
                    deployExit, rmPending, uncaught, chunksLeft >>

(***************************************************************************)
(* controller.enqueue: appends to the stream while it is open and throws   *)
(* a TypeError once it is closed.                                          *)
(***************************************************************************)
CanEnqueue(i) == ctrl[i] = "open"

(***************************************************************************)
(* action: the requests that never reach handleBuild or handleFlyDeploy.   *)
(* A refusal answers at once; 'package' answers the archive (its bytes     *)
(* are modelled by handlePackage below).                                   *)
(***************************************************************************)
ActionAnswers(i) ==
    /\ pc[i] = "idle"
    /\ \E r \in Requests :
        /\ Dispatch(r) \notin { "handleBuild", "handleFlyDeploy" }
        /\ request' = [request EXCEPT ![i] = r]
        /\ resp' = [resp EXCEPT ![i] =
                       IF Dispatch(r) = "handlePackage" THEN "gzip"
                       ELSE Dispatch(r)]
    /\ pc' = [pc EXCEPT ![i] = "done"]
    /\ UNCHANGED notDeployVars
    /\ UNCHANGED << now, fsDirs, kind, files, buildDir, ctrl, log,
                    deployOutput, createApp, deploy, dockerBuild, createExit,
                    deployExit, rmPending, uncaught, chunksLeft, flyctl >>

(***************************************************************************)
(* handleBuild, up to the first await that can fail: the directory is      *)
(* named after Date.now() and created.                                     *)
(***************************************************************************)
BuildStart(i) ==
    /\ pc[i] = "idle"
    /\ \E r \in Requests :
        /\ Dispatch(r) = "handleBuild"
        /\ request' = [request EXCEPT ![i] = r]
    /\ \E f \in FileSets : files' = [files EXCEPT ![i] = f]
    /\ kind' = [kind EXCEPT ![i] = "build"]
    /\ buildDir' = [buildDir EXCEPT ![i] = BuildDirName("bolt-docker-build-", now)]
    /\ fsDirs' = fsDirs \cup {BuildDirName("bolt-docker-build-", now)}
    /\ pc' = [pc EXCEPT ![i] = "writing"]
    /\ UNCHANGED notDeployVars
    /\ UNCHANGED flyctl
    /\ UNCHANGED << now, resp, ctrl, log, deployOutput, createApp, deploy,
                    dockerBuild, createExit, deployExit, rmPending, uncaught,
                    chunksLeft >>

(***************************************************************************)
(* handleFlyDeploy, up to the mkdir: flyctl version is probed first; when  *)
(* it is missing the handler answers 500 before any directory exists.      *)
(***************************************************************************)
FlyStart(i) ==
    /\ pc[i] = "idle"
    /\ \E r \in Requests :
        /\ Dispatch(r) = "handleFlyDeploy"
        /\ request' = [request EXCEPT ![i] = r]
    /\ kind' = [kind EXCEPT ![i] = "fly-deploy"]
    /\ \E flyctlInstalled \in BOOLEAN :
        IF flyctlInstalled
        THEN /\ flyctl' = [flyctl EXCEPT ![i] = "found"]
             /\ \E f \in FileSets : files' = [files EXCEPT ![i] = f]
             /\ buildDir' = [buildDir EXCEPT ![i] = BuildDirName("bolt-fly-deploy-", now)]
             /\ fsDirs' = fsDirs \cup {BuildDirName("bolt-fly-deploy-", now)}
             /\ pc' = [pc EXCEPT ![i] = "writing"]
             /\ resp' = resp
        ELSE /\ flyctl' = [flyctl EXCEPT ![i] = "missing"]
             /\ resp' = [resp EXCEPT ![i] = "json500"]
             /\ pc' = [pc EXCEPT ![i] = "done"]
             /\ UNCHANGED << files, buildDir, fsDirs >>
    /\ UNCHANGED notDeployVars
    /\ UNCHANGED << now, ctrl, log, deployOutput, createApp, deploy,
                    dockerBuild, createExit, deployExit, rmPending, uncaught,
                    chunksLeft >>

(***************************************************************************)
(* The loop that writes the files, then the creation of the stream whose   *)
(* start() spawns the first subprocess.  An exception of mkdir/writeFile   *)
(* reaches the handler's outer catch, which answers 500.                   *)
(***************************************************************************)
WriteFiles(i) ==
    /\ pc[i] = "writing"
    /\ IF WriteThrows(files[i])
       THEN /\ resp' = [resp EXCEPT ![i] = "json500"]
            /\ pc' = [pc EXCEPT ![i] = "done"]
            /\ UNCHANGED << ctrl, log, createApp, dockerBuild >>
       ELSE /\ resp' = [resp EXCEPT ![i] = "stream"]
            /\ ctrl' = [ctrl EXCEPT ![i] = "open"]
            /\ IF kind[i] = "build"
               THEN /\ dockerBuild' = [dockerBuild EXCEPT ![i] = "running"]
                    /\ pc' = [pc EXCEPT ![i] = "build"]
                    /\ UNCHANGED << log, createApp >>
               ELSE /\ log' = [log EXCEPT ![i] = CreateHeader]
                    /\ createApp' = [createApp EXCEPT ![i] = "running"]
                    /\ pc' = [pc EXCEPT ![i] = "create"]
                    /\ UNCHANGED dockerBuild
    /\ UNCHANGED notDeployVars
    /\ UNCHANGED << request, flyctl >>
    /\ UNCHANGED << now, fsDirs, kind, files, buildDir, deployOutput, deploy,
                    createExit, deployExit, rmPending, uncaught, chunksLeft >>

(***************************************************************************)
(* const log = (msg) => controller.enqueue(encoder.encode(msg))            *)
(* An enqueue on a closed controller throws out of the event handler.      *)
(***************************************************************************)
LogMsg(i, text) ==
    /\ log' = [log EXCEPT ![i] = IF CanEnqueue(i) THEN @ \o text ELSE @]
    /\ uncaught' = IF CanEnqueue(i) THEN uncaught ELSE uncaught \cup {i}

(***************************************************************************)
(* handleFlyDeploy step 1: flyctl apps create.                             *)
(* stderr handler: a chunk that includes 'already exists' is replaced by   *)
(* the reuse message, every other chunk is logged as it is.                *)
(***************************************************************************)
StderrLogText(msg) ==
    IF ~Includes(msg, AlreadyExists) THEN msg ELSE ReuseMessage

CreateAppStdout(i) ==
    /\ createApp[i] = "running"
    /\ chunksLeft > 0
    /\ chunksLeft' = chunksLeft - 1
    /\ \E data \in CreateStdoutChunks : LogMsg(i, data)
    /\ UNCHANGED notDeployVars
    /\ UNCHANGED << request, flyctl >>
    /\ UNCHANGED << now, fsDirs, pc, kind, files, buildDir, resp, ctrl,
                    deployOutput, createApp, deploy, dockerBuild, createExit,
                    deployExit, rmPending >>

CreateAppStderr(i) ==
    /\ createApp[i] = "running"
    /\ chunksLeft > 0
    /\ chunksLeft' = chunksLeft - 1
    /\ \E data \in CreateStderrChunks : LogMsg(i, StderrLogText(data))
    /\ UNCHANGED notDeployVars
    /\ UNCHANGED << request, flyctl >>
    /\ UNCHANGED << now, fsDirs, pc, kind, files, buildDir, resp, ctrl,
                    deployOutput, createApp, deploy, dockerBuild, createExit,
                    deployExit, rmPending >>

\* The continuation of the awaited create promise: step 2 starts.
\* Both createApp handlers call resolve(), whatever the exit code.
CreateSettles(i, event) ==
    IF pc[i] = "create"
    THEN /\ createExit' = [createExit EXCEPT ![i] = event]
         /\ LogMsg(i, DeployHeader)
         /\ deployOutput' = [deployOutput EXCEPT ![i] = << >>]
         /\ deploy' = [deploy EXCEPT ![i] = "running"]
         /\ pc' = [pc EXCEPT ![i] = "deploy"]
    ELSE UNCHANGED << createExit, log, uncaught, deployOutput, deploy, pc >>

CreateAppClose(i) ==
    /\ createApp[i] \in {"running", "errored"}
    /\ createApp' = [createApp EXCEPT ![i] = "closed"]
    /\ \E code \in (IF createApp[i] = "running" THEN ExitCodes ELSE {SpawnErrno}) :
           CreateSettles(i, CloseEvent(code))
    /\ UNCHANGED notDeployVars
    /\ UNCHANGED << request, flyctl >>
    /\ UNCHANGED << now, fsDirs, kind, files, buildDir, resp, ctrl,
                    dockerBuild, deployExit, rmPending, chunksLeft >>

CreateAppError(i) ==
    /\ createApp[i] = "running"
    /\ createApp' = [createApp EXCEPT ![i] = "errored"]
    /\ CreateSettles(i, ErrorEvent)
    /\ UNCHANGED notDeployVars
    /\ UNCHANGED << request, flyctl >>
    /\ UNCHANGED << now, fsDirs, kind, files, buildDir, resp, ctrl,
                    dockerBuild, deployExit, rmPending, chunksLeft >>

(***************************************************************************)
(* handleFlyDeploy step 2: flyctl deploy.  Both data handlers append the   *)
(* chunk to deployOutput and log it.                                       *)
(***************************************************************************)
DeployData(i, text) ==
    /\ deployOutput' = [deployOutput EXCEPT ![i] = @ \o text]
    /\ LogMsg(i, text)

DeployStdout(i) ==
    /\ deploy[i] = "running"
    /\ chunksLeft > 0
    /\ chunksLeft' = chunksLeft - 1
    /\ \E data \in DeployChunks : DeployData(i, data)
    /\ UNCHANGED notDeployVars
    /\ UNCHANGED << request, flyctl >>
    /\ UNCHANGED << now, fsDirs, pc, kind, files, buildDir, resp, ctrl,
                    createApp, deploy, dockerBuild, createExit, deployExit,
                    rmPending >>

DeployStderr(i) ==
    /\ deploy[i] = "running"
    /\ chunksLeft > 0
    /\ chunksLeft' = chunksLeft - 1
    /\ \E data \in DeployChunks : DeployData(i, data)
    /\ UNCHANGED notDeployVars
    /\ UNCHANGED << request, flyctl >>
    /\ UNCHANGED << now, fsDirs, pc, kind, files, buildDir, resp, ctrl,
                    createApp, deploy, dockerBuild, createExit, deployExit,
                    rmPending >>

actuallyDeployed(out) == \E p \in SuccessPhrases : Includes(out, p)

\* a deploy that trusts the exit code alone
DeployResolves_ExitCodeOnly(code, out) == code = 0

DeployResolves(code, out) == code = 0 /\ actuallyDeployed(out)

RejectMessage(code, out) ==
    IF code = 0 /\ ~actuallyDeployed(out) THEN NotCompleteMsg ELSE ExitCodeMsg

\* Step 3 after resolve(): the success block.  After reject(): the catch
\* block.  Either way the finally block then awaits rm().
DeploySettles(i, event, text) ==
    IF pc[i] = "deploy"
    THEN /\ deployExit' = [deployExit EXCEPT ![i] = event]
         /\ LogMsg(i, text)
         /\ pc' = [pc EXCEPT ![i] = "cleanup"]
    ELSE UNCHANGED << deployExit, log, uncaught, pc >>

DeployClose(i) ==
    /\ deploy[i] \in {"running", "errored"}
    /\ deploy' = [deploy EXCEPT ![i] = "closed"]
    /\ \E code \in (IF deploy[i] = "running" THEN ExitCodes ELSE {SpawnErrno}) :
           DeploySettles(i, CloseEvent(code),
               IF DeployResolves(code, deployOutput[i])
               THEN SuccessBlock
               ELSE FailedLine(RejectMessage(code, deployOutput[i])) \o Troubleshooting)
    /\ UNCHANGED notDeployVars
    /\ UNCHANGED << request, flyctl >>
    /\ UNCHANGED << now, fsDirs, kind, files, buildDir, resp, ctrl,
                    deployOutput, createApp, dockerBuild, createExit,
                    rmPending, chunksLeft >>

DeployError(i) ==
    /\ deploy[i] = "running"
    /\ deploy' = [deploy EXCEPT ![i] = "errored"]
    /\ DeploySettles(i, ErrorEvent, FailedLine(SpawnErrorMsg) \o Troubleshooting)
    /\ UNCHANGED notDeployVars
    /\ UNCHANGED << request, flyctl >>
    /\ UNCHANGED << now, fsDirs, kind, files, buildDir, resp, ctrl,
                    deployOutput, createApp, dockerBuild, createExit,
                    rmPending, chunksLeft >>

\* finally { await rm(buildDir); controller.close() }
FlyCleanup(i) ==
    /\ pc[i] = "cleanup"
    /\ fsDirs' = fsDirs \ {buildDir[i]}
    /\ ctrl' = [ctrl EXCEPT ![i] = "closed"]
    /\ pc' = [pc EXCEPT ![i] = "done"]
    /\ UNCHANGED notDeployVars
    /\ UNCHANGED << request, flyctl >>
    /\ UNCHANGED << now, kind, files, buildDir, resp, log, deployOutput,
                    createApp, deploy, dockerBuild, createExit, deployExit,
                    rmPending, uncaught, chunksLeft >>

(***************************************************************************)
(* handleBuild: docker build.                                              *)
(***************************************************************************)
BuildChunks == { <<"x">> }

DockerBuildStdout(i) ==
    /\ dockerBuild[i] = "running"
    /\ chunksLeft > 0
    /\ chunksLeft' = chunksLeft - 1
    /\ \E data \in BuildChunks : LogMsg(i, data)
    /\ UNCHANGED notDeployVars
    /\ UNCHANGED << request, flyctl >>
    /\ UNCHANGED << now, fsDirs, pc, kind, files, buildDir, resp, ctrl,
                    deployOutput, createApp, deploy, dockerBuild, createExit,
                    deployExit, rmPending >>

DockerBuildStderr(i) ==
    /\ dockerBuild[i] = "running"
    /\ chunksLeft > 0
    /\ chunksLeft' = chunksLeft - 1
    /\ \E data \in BuildChunks : LogMsg(i, data)
    /\ UNCHANGED notDeployVars
    /\ UNCHANGED << request, flyctl >>
    /\ UNCHANGED << now, fsDirs, pc, kind, files, buildDir, resp, ctrl,
                    deployOutput, createApp, deploy, dockerBuild, createExit,
                    deployExit, rmPending >>

\* 'close': the result line is enqueued, then rm() is awaited.  When the
\* controller was closed by the 'error' handler the first enqueue throws.
DockerBuildClose(i) ==
    /\ dockerBuild[i] \in {"running", "errored"}
    /\ dockerBuild' = [dockerBuild EXCEPT ![i] = "closed"]
    /\ \E code \in (IF dockerBuild[i] = "running" THEN ExitCodes ELSE {SpawnErrno}) :
           LogMsg(i, IF code = 0 THEN BuildSuccessBlock ELSE BuildFailedLine)
    /\ pc' = [pc EXCEPT ![i] = IF CanEnqueue(i) THEN "closeRm" ELSE @]
    /\ UNCHANGED notDeployVars
    /\ UNCHANGED << request, flyctl >>
    /\ UNCHANGED << now, fsDirs, kind, files, buildDir, resp, ctrl,
                    deployOutput, createApp, deploy, createExit, deployExit,
                    rmPending, chunksLeft >>

DockerBuildRmDone(i) ==
    /\ pc[i] = "closeRm"
    /\ fsDirs' = fsDirs \ {buildDir[i]}
    /\ ctrl' = [ctrl EXCEPT ![i] = "closed"]
    /\ pc' = [pc EXCEPT ![i] = "done"]
    /\ UNCHANGED notDeployVars
    /\ UNCHANGED << request, flyctl >>
    /\ UNCHANGED << now, kind, files, buildDir, resp, log, deployOutput,
                    createApp, deploy, dockerBuild, createExit, deployExit,
                    rmPending, uncaught, chunksLeft >>

\* 'error': the message is enqueued, rm() is started without await, and
\* the controller is closed at once.
DockerBuildError(i) ==
    /\ dockerBuild[i] = "running"
    /\ dockerBuild' = [dockerBuild EXCEPT ![i] = "errored"]
    /\ LogMsg(i, BuildErrorLine)
    /\ rmPending' = rmPending \cup {i}
    /\ ctrl' = [ctrl EXCEPT ![i] = "closed"]
    /\ pc' = [pc EXCEPT ![i] = "done"]
    /\ UNCHANGED notDeployVars
    /\ UNCHANGED << request, flyctl >>
    /\ UNCHANGED << now, fsDirs, kind, files, buildDir, resp, deployOutput,
                    createApp, deploy, createExit, deployExit, chunksLeft >>

DockerBuildErrorRm(i) ==
    /\ i \in rmPending
    /\ rmPending' = rmPending \ {i}
    /\ fsDirs' = fsDirs \ {buildDir[i]}
    /\ UNCHANGED notDeployVars
    /\ UNCHANGED << request, flyctl >>
    /\ UNCHANGED << now, pc, kind, files, buildDir, resp, ctrl, log,
                    deployOutput, createApp, deploy, dockerBuild, createExit,
                    deployExit, uncaught, chunksLeft >>

(***************************************************************************)
(* One invocation's steps: those of the handler and of the events that end *)
(* a subprocess, and those that deliver subprocess output.                 *)
(***************************************************************************)
LifecycleStep(i) ==
    \/ ActionAnswers(i)
    \/ BuildStart(i)
    \/ FlyStart(i)
    \/ WriteFiles(i)
    \/ CreateAppClose(i)
    \/ CreateAppError(i)
    \/ DeployClose(i)
    \/ DeployError(i)
    \/ FlyCleanup(i)
    \/ DockerBuildClose(i)
    \/ DockerBuildRmDone(i)
    \/ DockerBuildError(i)
    \/ DockerBuildErrorRm(i)

DataStep(i) ==
    \/ CreateAppStdout(i)
    \/ CreateAppStderr(i)
    \/ DeployStdout(i)
    \/ DeployStderr(i)
    \/ DockerBuildStdout(i)
    \/ DockerBuildStderr(i)


(***************************************************************************)
(* stream-text.ts: streamText.  The state is that of the moment streamText *)
(* returns: the producer has been started and waits for the model.         *)
(***************************************************************************)
ArtifactTag == << "<bolt", "Artifact" >>

\* what ollama.streamChat may yield: never an empty string
ModelChunks ==
    { <<"p">>, <<"<bolt">>, <<"Artifact">>, <<"p", "<bolt", "Artifact", "c">> }

\* an indexOf that answers 0 for every text that holds the phrase
IndexOf_StartOfText(text, phrase) ==
    IF Includes(text, phrase) THEN 0 ELSE 0 - 1

\* String.prototype.indexOf, 0-based, -1 when absent
IndexOf(text, phrase) ==
    IF Includes(text, phrase)
    THEN CHOOSE k \in 0..(Len(text) - Len(phrase)) :
             /\ SubSeq(text, k + 1, k + Len(phrase)) = phrase
             /\ \A j \in 0..(k - 1) : SubSeq(text, j + 1, j + Len(phrase)) # phrase
    ELSE 0 - 1

\* `0:${JSON.stringify(chunk)}\n`
Formatted(chunk) == [prefix |-> "0:", json |-> chunk]

(***************************************************************************)
(* The producer.  The model's response needs a turn of the event loop,     *)
(* while the caller (api.llmcall) calls toDataStreamResponse() in the same *)
(* turn in which `await streamText()` resumes: a chunk or the end of the   *)
(* model stream is seen only after the consumer has started.  A failure of *)
(* the request itself can come first.                                      *)
(***************************************************************************)
ProducerRunning == ~streamComplete /\ ~streamError

\* one iteration of `for await (const chunk of ollama.streamChat(...))`
OllamaChunk ==
    /\ ProducerRunning
    /\ consumer # "none"
    /\ yielded < MaxModelChunks
    /\ yielded' = yielded + 1
    /\ \E chunk \in ModelChunks :
        LET acc == accumulatedText \o chunk
            artifactIndex == IndexOf(acc, ArtifactTag)
        IN  /\ modelText' = modelText \o chunk
            /\ IF ~foundArtifactStart
               THEN IF artifactIndex >= 0
                    THEN /\ foundArtifactStart' = TRUE
                         /\ chunks' = Append(chunks, SubSeq(acc, artifactIndex + 1, Len(acc)))
                         /\ accumulatedText' = << >>
                    ELSE /\ accumulatedText' = acc
                         /\ UNCHANGED << foundArtifactStart, chunks >>
               ELSE /\ chunks' = Append(chunks, chunk)
                    /\ accumulatedText' = acc
                    /\ UNCHANGED foundArtifactStart
    /\ UNCHANGED notStreamVars
    /\ UNCHANGED << streamComplete, streamError, consumer, index, cpc,
                    delivered, outcome >>

OllamaDone ==
    /\ ProducerRunning
    /\ consumer # "none"
    /\ streamComplete' = TRUE
    /\ UNCHANGED notStreamVars
    /\ UNCHANGED << chunks, streamError, foundArtifactStart, accumulatedText,
                    yielded, consumer, index, cpc, delivered, outcome >>
    /\ UNCHANGED modelText

OllamaThrows ==
    /\ ProducerRunning
    /\ streamError' = TRUE
    /\ UNCHANGED notStreamVars
    /\ UNCHANGED << chunks, streamComplete, foundArtifactStart,
                    accumulatedText, yielded, consumer, index, cpc, delivered,
                    outcome >>
    /\ UNCHANGED modelText

(***************************************************************************)
(* The consumer loop of mergeIntoDataStream and toDataStreamResponse, run  *)
(* from one await to the next.                                             *)
(*   while (!streamComplete || index < chunks.length) {                    *)
(*     while (index >= chunks.length && !streamComplete && !streamError)   *)
(*       await sleep(10)                                                   *)
(*     while (index < chunks.length) { write(chunks[index]); index++ }     *)
(*     if (streamError) { error; return }                                  *)
(*     if (streamComplete && index >= chunks.length) { close; return }     *)
(*   }                                                                     *)
(***************************************************************************)
ConsumerKinds == { "toDataStreamResponse", "mergeIntoDataStream" }

FormatAll(cs) == [k \in 1..Len(cs) |-> Formatted(cs[k])]

\* a loop that returns at the end of the model stream without closing
InnerFrom_ReturnsOpen(idx, out) ==
    IF idx >= Len(chunks) /\ ~streamComplete /\ ~streamError
    THEN [cpc |-> "sleeping", index |-> idx, delivered |-> out, outcome |-> "open"]
    ELSE [cpc |-> IF streamError \/ streamComplete THEN "returned" ELSE "sleeping",
          index |-> Len(chunks),
          delivered |-> out \o [k \in 1..(Len(chunks) - idx) |-> Formatted(chunks[idx + k])],
          outcome |-> IF streamError THEN "errored" ELSE "open"]

\* at the head of the inner wait loop
InnerFrom(idx, out) ==
    IF idx >= Len(chunks) /\ ~streamComplete /\ ~streamError
    THEN [cpc |-> "sleeping", index |-> idx, delivered |-> out, outcome |-> "open"]
    ELSE LET out2 == out \o FormatAll(SubSeq(chunks, idx + 1, Len(chunks)))
         IN  IF streamError
             THEN [cpc |-> "returned", index |-> Len(chunks), delivered |-> out2,
                   outcome |-> "errored"]
             ELSE IF streamComplete
             THEN [cpc |-> "returned", index |-> Len(chunks), delivered |-> out2,
                   outcome |-> "closed"]
             ELSE [cpc |-> "sleeping", index |-> Len(chunks), delivered |-> out2,
                   outcome |-> "open"]

\* at the head of the outer loop
LoopFrom(idx, out) ==
    IF ~streamComplete \/ idx < Len(chunks)
    THEN InnerFrom(idx, out)
    ELSE [cpc |-> "returned", index |-> idx, delivered |-> out, outcome |-> "open"]

ConsumerMoves(r) ==
    /\ cpc' = r.cpc
    /\ index' = r.index
    /\ delivered' = r.delivered
    /\ outcome' = r.outcome

ConsumerStart ==
    /\ consumer = "none"
    /\ \E kind_ \in ConsumerKinds : consumer' = kind_
    /\ ConsumerMoves(LoopFrom(0, << >>))
    /\ UNCHANGED notStreamVars
    /\ UNCHANGED << chunks, streamComplete, streamError, foundArtifactStart,
                    accumulatedText, yielded >>
    /\ UNCHANGED modelText

\* the 10 ms timer fires
ConsumerWake ==
    /\ cpc = "sleeping"
    /\ ConsumerMoves(InnerFrom(index, delivered))
    /\ UNCHANGED notStreamVars
    /\ UNCHANGED << chunks, streamComplete, streamError, foundArtifactStart,
                    accumulatedText, yielded, consumer >>
    /\ UNCHANGED modelText


(***************************************************************************)
(* fullStream: the generator of fullStreamGenerator(), run from one        *)
(* suspension to the next.  It is suspended at `yield` of a text-delta     *)
(* ("atYield", index not yet incremented), at `yield` of the error         *)
(* ("atErrorYield"), or inside next() while the 10 ms timer is pending     *)
(* ("genSleeping").                                                        *)
(***************************************************************************)
TextDelta(chunk) == [type |-> "text-delta", textDelta |-> chunk]

\* a generator that looks at streamError before it yields what is buffered
GenYields_ErrorFirst(idx, out) ==
    IF streamError
    THEN [cpc |-> "atErrorYield", index |-> idx, delivered |-> out,
          outcome |-> "errored"]
    ELSE IF idx < Len(chunks)
    THEN [cpc |-> "atYield", index |-> idx,
          delivered |-> Append(out, TextDelta(chunks[idx + 1])), outcome |-> "open"]
    ELSE IF streamComplete
    THEN [cpc |-> "returned", index |-> idx, delivered |-> out, outcome |-> "closed"]
    ELSE [cpc |-> "genSleeping", index |-> idx, delivered |-> out, outcome |-> "open"]

\* at the head of `while (index < chunks.length)`, the wait loop passed
GenYields(idx, out) ==
    IF idx < Len(chunks)
    THEN [cpc |-> "atYield", index |-> idx,
          delivered |-> Append(out, TextDelta(chunks[idx + 1])), outcome |-> "open"]
    ELSE IF streamError
    THEN [cpc |-> "atErrorYield", index |-> idx, delivered |-> out,
          outcome |-> "errored"]
    ELSE IF streamComplete
    THEN [cpc |-> "returned", index |-> idx, delivered |-> out, outcome |-> "closed"]
    ELSE [cpc |-> "genSleeping", index |-> idx, delivered |-> out, outcome |-> "open"]

\* at the head of the inner wait loop
GenWaits(idx, out) ==
    IF idx >= Len(chunks) /\ ~streamComplete /\ ~streamError
    THEN [cpc |-> "genSleeping", index |-> idx, delivered |-> out, outcome |-> "open"]
    ELSE GenYields(idx, out)

\* at the head of the outer loop
GenFrom(idx, out) ==
    IF ~streamComplete \/ idx < Len(chunks)
    THEN GenWaits(idx, out)
    ELSE [cpc |-> "returned", index |-> idx, delivered |-> out, outcome |-> "closed"]

\* the consumer of fullStream calls next()
FullStreamNext ==
    /\ \/ /\ consumer = "none"
          /\ consumer' = "fullStream"
          /\ ConsumerMoves(GenFrom(0, << >>))
       \/ /\ consumer = "fullStream"
          /\ cpc = "atYield"
          /\ UNCHANGED consumer
          /\ ConsumerMoves(GenYields(index + 1, delivered))
       \/ /\ consumer = "fullStream"
          /\ cpc = "atErrorYield"
          /\ UNCHANGED consumer
          /\ ConsumerMoves([cpc |-> "returned", index |-> index,
                            delivered |-> delivered, outcome |-> outcome])
    /\ UNCHANGED notStreamVars
    /\ UNCHANGED << chunks, streamComplete, streamError, foundArtifactStart,
                    accumulatedText, yielded, modelText >>

\* the 10 ms timer of the generator fires
FullStreamWake ==
    /\ cpc = "genSleeping"
    /\ ConsumerMoves(GenWaits(index, delivered))
    /\ UNCHANGED notStreamVars
    /\ UNCHANGED << chunks, streamComplete, streamError, foundArtifactStart,
                    accumulatedText, yielded, modelText, consumer >>

(***************************************************************************)
(* The streaming message parser (lib/runtime/enhanced-message-parser), as  *)
(* the specification describes it.  Message text is a sequence of tokens:  *)
(*   "t"    plain text or content                                          *)
(*   "<A>"  artifact opening tag      "</A>"  artifact closing tag         *)
(*   "<F>"  file action opening tag   "<S>"   shell action opening tag     *)
(*   "</a>" action closing tag                                             *)
(* parse(id, text) gets the full text and resumes at the position it       *)
(* reached for that id.  A file action fires open at its tag, stream while *)
(* content arrives and close at its closing tag; another action fires open *)
(* and close together at its closing tag.                                  *)
(***************************************************************************)
Event(ev, m, n, type) == [ev |-> ev, msg |-> m, n |-> n, type |-> type]

\* the parser after one token: the new state, the events fired and the
\* visible text produced
ParseToken(st, m, tok) ==
    CASE st.mode = "outside" ->
            IF tok = "<A>"
            THEN [st |-> [st EXCEPT !.mode = "artifact", !.artifact = @ + 1],
                  ev |-> << Event("artifactOpen", m, st.artifact + 1, "artifact") >>,
                  text |-> << >>]
            ELSE [st |-> st, ev |-> << >>, text |-> << tok >>]
      [] st.mode = "artifact" ->
            IF tok = "<F>"
            THEN [st |-> [st EXCEPT !.mode = "file", !.action = @ + 1],
                  ev |-> << Event("actionOpen", m, st.action + 1, "file") >>,
                  text |-> << >>]
            ELSE IF tok = "<S>"
            THEN [st |-> [st EXCEPT !.mode = "shell", !.action = @ + 1],
                  ev |-> << >>, text |-> << >>]
            ELSE IF tok = "</A>"
            THEN [st |-> [st EXCEPT !.mode = "outside"],
                  ev |-> << Event("artifactClose", m, st.artifact, "artifact") >>,
                  text |-> << >>]
            ELSE [st |-> st, ev |-> << >>, text |-> << >>]
      [] st.mode = "file" ->
            IF tok = "</a>"
            THEN [st |-> [st EXCEPT !.mode = "artifact"],
                  ev |-> << Event("actionClose", m, st.action, "file") >>,
                  text |-> << >>]
            ELSE [st |-> st, ev |-> << >>, text |-> << >>]
      [] st.mode = "shell" ->
            IF tok = "</a>"
            THEN [st |-> [st EXCEPT !.mode = "artifact"],
                  ev |-> << Event("actionOpen", m, st.action, "shell"),
                            Event("actionClose", m, st.action, "shell") >>,
                  text |-> << >>]
            ELSE [st |-> st, ev |-> << >>, text |-> << >>]

\* the tokens from position st.pos on, one after the other
RECURSIVE ParseFrom(_, _, _, _)
ParseFrom(st, m, text, streamed) ==
    IF st.pos >= Len(text)
    THEN [st |-> st,
          ev |-> IF st.mode = "file" /\ streamed
                 THEN << Event("actionStream", m, st.action, "file") >>
                 ELSE << >>,
          text |-> << >>]
    ELSE LET one == ParseToken(st, m, text[st.pos + 1])
             rest == ParseFrom([one.st EXCEPT !.pos = st.pos + 1], m, text,
                               one.st.mode = "file" /\ st.mode = "file")
         IN  [st |-> rest.st, ev |-> one.ev \o rest.ev, text |-> one.text \o rest.text]

\* messageParser.parse(messageId, input)
Parse(ps, m, text) == ParseFrom(ps[m], m, text, FALSE)

(***************************************************************************)
(* useMessageParser: the callbacks given to the parser.  A workbench call  *)
(* records the callback that made it.                                      *)
(***************************************************************************)
Call(op, e, isStreaming) ==
    [op |-> op, msg |-> e.msg, n |-> e.n, type |-> e.type,
     isStreaming |-> isStreaming, on |-> e.ev]

onArtifactOpen(data) == << Call("addArtifact", data, FALSE) >>

onArtifactClose(data) == << Call("updateArtifact", data, FALSE) >>

\* callbacks a slip would produce
onActionOpen_AddsEveryType(data) == << Call("addAction", data, FALSE) >>
onActionClose_RunsOnly(data) == << Call("runAction", data, FALSE) >>
onActionStream_NotStreaming(data) == << Call("runAction", data, FALSE) >>

onActionOpen(data) ==
    IF data.type = "file" THEN << Call("addAction", data, FALSE) >> ELSE << >>

onActionClose(data) ==
    (IF data.type # "file" THEN << Call("addAction", data, FALSE) >> ELSE << >>)
        \o << Call("runAction", data, FALSE) >>

onActionStream(data) == << Call("runAction", data, TRUE) >>

Callback(e) ==
    CASE e.ev = "artifactOpen" -> onArtifactOpen(e)
      [] e.ev = "artifactClose" -> onArtifactClose(e)
      [] e.ev = "actionOpen" -> onActionOpen(e)
      [] e.ev = "actionClose" -> onActionClose(e)
      [] e.ev = "actionStream" -> onActionStream(e)

RECURSIVE Callbacks(_)
Callbacks(es) ==
    IF es = << >> THEN << >> ELSE Callback(Head(es)) \o Callbacks(Tail(es))

(***************************************************************************)
(* parseMessages(messages, isLoading)                                      *)
(***************************************************************************)
\* a reset whatever the build
ResetNeeded_EveryBuild(isLoading) == ~isLoading

ResetNeeded(isLoading) == dev /\ ~isLoading

\* the loop over messages.entries(), from message m on
RECURSIVE ParseAll(_, _, _, _, _)
ParseAll(m, msgs, ps, shown, reset) ==
    IF m > Len(msgs)
    THEN [ps |-> ps, shown |-> shown, ev |-> << >>]
    ELSE LET r == Parse(ps, m, msgs[m])
             rest == ParseAll(m + 1, msgs, [ps EXCEPT ![m] = r.st],
                              [shown EXCEPT ![m] = IF ~reset THEN @ \o r.text ELSE r.text],
                              reset)
         IN  [ps |-> rest.ps, shown |-> rest.shown, ev |-> r.ev \o rest.ev]

(***************************************************************************)
(* The conversation handed to parseMessages is the one of the last call,   *)
(* grown: messages were added, and the last message got more tokens of a   *)
(* well-formed artifact stream (plain text in and around it).              *)
(***************************************************************************)
RECURSIVE TotalLen(_)
TotalLen(ms) == IF ms = << >> THEN 0 ELSE Len(Head(ms)) + TotalLen(Tail(ms))

\* where a reader of the whole text stands at its end
ModeAfter(text) ==
    ParseFrom([pos |-> 0, mode |-> "outside", artifact |-> 0, action |-> 0],
              1, text, FALSE).st.mode

NextTokens(text) ==
    CASE ModeAfter(text) = "outside" -> { "t", "<A>" }
      [] ModeAfter(text) = "artifact" -> { "<F>", "<S>", "</A>" }
      [] ModeAfter(text) = "file" -> { "t", "</a>" }
      [] ModeAfter(text) = "shell" -> { "t", "</a>" }

\* one more message, or one more token
GrowsOnce(ms) ==
    (IF Len(ms) < NumMsgs THEN { Append(ms, << >>) } ELSE { })
        \cup (IF Len(ms) > 0 /\ TotalLen(ms) < MaxTextLen
              THEN { [ms EXCEPT ![Len(ms)] = Append(@, tok)] :
                         tok \in NextTokens(ms[Len(ms)]) }
              ELSE { })

RECURSIVE Grown(_, _)
Grown(ms, k) ==
    IF k = 0 THEN { ms }
    ELSE LET g == Grown(ms, k - 1) IN g \cup UNION { GrowsOnce(x) : x \in g }

ParseMessages ==
    /\ parseCalls < MaxParseCalls
    /\ parseCalls' = parseCalls + 1
    /\ \E msgs \in Grown(messages, MaxGrow), isLoading \in BOOLEAN :
        LET reset == ResetNeeded(isLoading)
            r == ParseAll(1, msgs, IF reset THEN FreshParser ELSE parserState,
                          parsedMessages, reset)
        IN  /\ messages' = msgs
            /\ parserState' = r.ps
            /\ parsedMessages' = r.shown
            /\ events' = events \o r.ev
            /\ calls' = calls \o Callbacks(r.ev)
            /\ idleParsed' = (idleParsed \/ ~isLoading)
    /\ UNCHANGED notGlueVars
    /\ UNCHANGED dev

(***************************************************************************)
(* DeployButton: handleOneClickDeploy.  Names and URLs are sequences of    *)
(* characters; the scheme, the labels fly and dev and the time suffix are   *)
(* one token each.                                                         *)
(***************************************************************************)
TitleChars == { "a", "A", " ", ".", "_" }

\* artifact.title
Titles == UNION { [1..n -> TitleChars] : n \in 0..MaxTitleLen }

\* Date.now().toString(36).slice(-4)
Suffixes == { "1a2b", "zz9k" }

NameSliceLen == 24

toLowerCase(c) == IF c = "A" THEN "a" ELSE c

\* .replace(/\s+/g, '-'): every run of white space becomes one hyphen
RECURSIVE ReplaceSpaces(_)
ReplaceSpaces(str) ==
    IF str = << >> THEN << >>
    ELSE IF Head(str) = " "
         THEN IF Len(str) > 1 /\ str[2] = " "
              THEN ReplaceSpaces(Tail(str))
              ELSE << "-" >> \o ReplaceSpaces(Tail(str))
         ELSE << Head(str) >> \o ReplaceSpaces(Tail(str))

\* handleDockerDeploy: projectName
ProjectName(title) ==
    LET t == IF title = << >> THEN << "b", "-", "p" >> ELSE title
        r == ReplaceSpaces(t)
    IN  [k \in 1..Len(r) |-> toLowerCase(r[k])]

\* /[^a-z0-9-]/
IsNameChar(c) == c \in { "a", "b", "p", "-" }

\* a replace that lets dots through
StripOthers_KeepsDots(str) == SelectSeq(str, LAMBDA c : IsNameChar(c) \/ c = ".")

\* .replace(/[^a-z0-9-]/g, '')
StripOthers(str) == SelectSeq(str, IsNameChar)

slice(str, n) == SubSeq(str, 1, IF Len(str) < n THEN Len(str) ELSE n)

\* `${projectName.replace(...).slice(0, 24)}-${suffix}`
FreshName(projectName, suffix) ==
    slice(StripOthers(projectName), NameSliceLen) \o << "-", suffix >>

\* `https://${flyAppName}.fly.dev`
AppUrl(name) == << "https://" >> \o name \o << ".", "fly", ".", "dev" >>

\* new URL(u) throws
UrlThrows(u) == Len(u) < 2 \/ Head(u) # "https://" \/ u[2] = "."

\* new URL(u).hostname: the host, in lower case
hostname(u) == [k \in 1..(Len(u) - 1) |-> toLowerCase(u[k + 1])]

\* .split('.')[0]
RECURSIVE FirstLabel(_)
FirstLabel(str) ==
    IF str = << >> \/ Head(str) = "." THEN << >>
    ELSE << Head(str) >> \o FirstLabel(Tail(str))

\* the button is disabled
DeployDisabled ==
    \/ hpc = "packaging"
    \/ (deployStatus = "deploying" /\ showDeployProgress)
    \/ (deployedAtSignal # 0 - 1 /\ refreshSignal = deployedAtSignal)

PreviewRefresh ==
    /\ refreshSignal < MaxRefresh
    /\ refreshSignal' = refreshSignal + 1
    /\ UNCHANGED notClientVars
    /\ UNCHANGED << deployedAt, atClick, collectedAt, deployedFrom >>
    /\ UNCHANGED << deployedUrl, firstUrl, hpc, currentMetadata, flyAppName,
                    deployStatus, showDeployProgress, deployedAppUrl, deployedAtSignal,
                    deployLog, fullLog, deployError >>

\* the dialog is closed; it cannot be while the deploy runs
CloseDialog ==
    /\ showDeployProgress
    /\ deployStatus # "deploying"
    /\ showDeployProgress' = FALSE
    /\ UNCHANGED notClientVars
    /\ UNCHANGED << deployedAt, atClick, collectedAt, deployedFrom >>
    /\ UNCHANGED << deployedUrl, firstUrl, hpc, currentMetadata, flyAppName,
                    deployStatus, deployedAppUrl, refreshSignal, deployedAtSignal,
                    deployLog, fullLog, deployError >>

\* the lines the handler writes to the log itself
PreparingLine == "Preparing your application for deployment..."
BuildingLine == "Building project and collecting files..."
RedeployingLine == "Redeploying in-place (same URL, zero downtime)..."
DeployingAsLine == "Deploying as ..."
ErrorLine(message) == << "ERROR: ", message >>

\* the messages of the errors the handler can catch
PrepareErrorMsg == "Failed to prepare project files. Check the terminal for build errors."
ResponseErrorMsg == "errorData.error"
MarkerErrorMsg == "Deployment failed - check the log for details"
ReadErrorMsg == "reader.read() rejected"

\* the failure markers looked for in the log
FailureMarkers == { << "x Deployment ", "failed" >>, << "deployment did ", "not complete" >> }

\* the chunks reader.read() can give
ResponseChunks ==
    { << "log" >> } \cup FailureMarkers
        \cup { << m[1] >> : m \in FailureMarkers } \cup { << m[2] >> : m \in FailureMarkers }

\* the click: the handler of the last render starts
ClickDeploy ==
    /\ hpc = "idle"
    /\ ~DeployDisabled
    /\ deployLog' = << PreparingLine, BuildingLine >>
    /\ deployStatus' = "deploying"
    /\ deployedAppUrl' = NoUrl
    /\ showDeployProgress' = TRUE
    /\ currentMetadata' = deployedUrl
    /\ fullLog' = << >>
    /\ deployError' = "none"
    /\ hpc' = "packaging"
    /\ UNCHANGED notClientVars
    /\ atClick' = [deployedUrl |-> deployedUrl, deployedAt |-> deployedAt,
                    deployedAtSignal |-> deployedAtSignal]
    /\ UNCHANGED << deployedAt, collectedAt, deployedFrom >>
    /\ UNCHANGED << deployedUrl, firstUrl, flyAppName, refreshSignal, deployedAtSignal >>

\* a catch block that shows the error alone
DeployFails_ReplacesLog(message) ==
    /\ deployStatus' = "error"
    /\ deployLog' = ErrorLine(message)
    /\ deployError' = message
    /\ hpc' = "idle"
    /\ UNCHANGED << deployedUrl, firstUrl, currentMetadata, showDeployProgress,
                    deployedAppUrl, refreshSignal, deployedAtSignal, fullLog >>

\* the catch block
DeployFails(message) ==
    /\ deployStatus' = "error"
    /\ deployLog' = deployLog \o ErrorLine(message)
    /\ deployError' = message
    /\ hpc' = "idle"
    /\ UNCHANGED << deployedUrl, firstUrl, currentMetadata, showDeployProgress,
                    deployedAppUrl, refreshSignal, deployedAtSignal, fullLog >>

\* a failure that also releases the lock
PackagingFails_ClearsLock ==
    /\ hpc = "packaging"
    /\ deployStatus' = "error"
    /\ deployLog' = deployLog \o ErrorLine(PrepareErrorMsg)
    /\ deployError' = PrepareErrorMsg
    /\ hpc' = "idle"
    /\ deployedAtSignal' = 0 - 1
    /\ UNCHANGED << deployedUrl, firstUrl, currentMetadata, showDeployProgress,
                    deployedAppUrl, refreshSignal, fullLog, flyAppName >>
    /\ UNCHANGED notClientVars
    /\ UNCHANGED << deployedAt, atClick, collectedAt, deployedFrom >>

\* handleDockerDeploy found nothing to deploy
PackagingFails ==
    /\ hpc = "packaging"
    /\ DeployFails(PrepareErrorMsg)
    /\ UNCHANGED flyAppName
    /\ UNCHANGED notClientVars
    /\ UNCHANGED << deployedAt, atClick, collectedAt, deployedFrom >>

\* handleDockerDeploy returned the files: the name is settled and the request sent
SendDeploy ==
    /\ hpc = "packaging"
    /\ \E title \in Titles, suffix \in Suffixes :
           flyAppName' =
               IF currentMetadata # NoUrl
               THEN IF UrlThrows(currentMetadata)
                    THEN FreshName(ProjectName(title), suffix)
                    ELSE FirstLabel(hostname(currentMetadata))
               ELSE FreshName(ProjectName(title), suffix)
    /\ deployLog' = Append(deployLog,
                           IF currentMetadata # NoUrl /\ ~UrlThrows(currentMetadata)
                           THEN RedeployingLine ELSE DeployingAsLine)
    /\ hpc' = "streaming"
    /\ UNCHANGED notClientVars
    /\ collectedAt' = refreshSignal
    /\ UNCHANGED << deployedAt, atClick, deployedFrom >>
    /\ UNCHANGED << deployedUrl, firstUrl, currentMetadata, deployStatus,
                    showDeployProgress, deployedAppUrl, refreshSignal, deployedAtSignal,
                    fullLog, deployError >>

\* reader.read() gave a chunk
ReadChunk ==
    /\ hpc = "streaming"
    /\ \E text \in ResponseChunks :
           /\ Len(fullLog) + Len(text) <= MaxLogLen
           /\ fullLog' = fullLog \o text
           /\ deployLog' = deployLog \o text
    /\ UNCHANGED notClientVars
    /\ UNCHANGED << deployedAt, atClick, collectedAt, deployedFrom >>
    /\ UNCHANGED << deployedUrl, firstUrl, hpc, currentMetadata, flyAppName,
                    deployStatus, showDeployProgress, deployedAppUrl, refreshSignal,
                    deployedAtSignal, deployError >>

\* reader.read() rejected: the connection broke
ReadFails ==
    /\ hpc = "streaming"
    /\ DeployFails(ReadErrorMsg)
    /\ UNCHANGED flyAppName
    /\ UNCHANGED notClientVars
    /\ UNCHANGED << deployedAt, atClick, collectedAt, deployedFrom >>

HasFailureMarker(text) == \E m \in FailureMarkers : Includes(text, m)

\* the response is a JSON error, or the log ended and holds a failure marker
ServerReportsFailure ==
    /\ hpc = "streaming"
    /\ \/ fullLog = << >> /\ DeployFails(ResponseErrorMsg)
       \/ HasFailureMarker(fullLog) /\ DeployFails(MarkerErrorMsg)
    /\ UNCHANGED flyAppName
    /\ UNCHANGED notClientVars
    /\ UNCHANGED << deployedAt, atClick, collectedAt, deployedFrom >>

\* the log ended without a failure marker
ServerReportsSuccess ==
    /\ hpc = "streaming"
    /\ ~HasFailureMarker(fullLog)
    /\ deployedAppUrl' = AppUrl(flyAppName)
    /\ deployStatus' = "success"
    /\ deployedAtSignal' = refreshSignal
    /\ hpc' = "persisting"
    /\ UNCHANGED notClientVars
    /\ deployedFrom' = collectedAt
    /\ UNCHANGED << deployedAt, atClick, collectedAt >>
    /\ UNCHANGED << deployedUrl, firstUrl, currentMetadata, flyAppName,
                    showDeployProgress, refreshSignal, deployLog, fullLog, deployError >>

\* updateChatMestaData returned: the URL is stored, or storing failed
MetadataUpdated ==
    /\ hpc = "persisting"
    /\ \E stored \in BOOLEAN :
           /\ deployedUrl' = IF stored THEN deployedAppUrl ELSE deployedUrl
           /\ firstUrl' = IF stored /\ firstUrl = NoUrl THEN deployedAppUrl ELSE firstUrl
           /\ deployedAt' = IF stored THEN deployedAt + 1 ELSE deployedAt
    /\ hpc' = "idle"
    /\ UNCHANGED notClientVars
    /\ UNCHANGED << atClick, collectedAt, deployedFrom >>
    /\ UNCHANGED << currentMetadata, flyAppName, deployStatus, showDeployProgress,
                    deployedAppUrl, refreshSignal, deployedAtSignal, deployLog,
                    fullLog, deployError >>

(***************************************************************************)
(* handlePackage and createTarHeader.  A byte is a number in 0..255; the   *)
(* archive and the headers are sequences of bytes, field offsets are the   *)
(* source's (counted from 0).                                              *)
(***************************************************************************)
BlockSize == 512
NameFieldLen == 100
ChecksumOffset == 148

Zeros(n) == [k \in 1..n |-> 0]

\* TypedArray.prototype.set(bytes, offset)
SetBytes(header, bytes, offset) ==
    [k \in 1..Len(header) |->
        IF k > offset /\ k <= offset + Len(bytes) THEN bytes[k - offset] ELSE header[k]]

\* Number.prototype.toString(8), as character codes
RECURSIVE ToOctal(_)
ToOctal(n) == IF n < 8 THEN << 48 + n >> ELSE ToOctal(n \div 8) \o << 48 + (n % 8) >>

\* String.prototype.padStart(width, '0')
PadStart(str, width) ==
    IF Len(str) >= width THEN str ELSE [k \in 1..(width - Len(str)) |-> 48] \o str

\* '0000644\0' and '0001000\0'
ModeField == << 48, 48, 48, 48, 54, 52, 52, 0 >>
OwnerField == << 48, 48, 48, 49, 48, 48, 48, 0 >>
\* 'ustar\0' and '00'
Magic == << 117, 115, 116, 97, 114, 0 >>
Version == << 48, 48 >>
Spaces8 == << 32, 32, 32, 32, 32, 32, 32, 32 >>

\* header[lo] + ... + header[hi]
RECURSIVE SumRange(_, _, _)
SumRange(header, lo, hi) ==
    IF lo > hi THEN 0
    ELSE IF lo = hi THEN header[lo]
    ELSE LET mid == (lo + hi) \div 2
         IN  SumRange(header, lo, mid) + SumRange(header, mid + 1, hi)

\* for (let i = 0; i < 512; i++) checksum += header[i]
SumBytes(header, n) == SumRange(header, 1, n)

\* createTarHeader up to the type flag, magic and version
HeaderFields(fileName, fileSize, mtime) ==
    LET h0 == Zeros(BlockSize)
        h1 == SetBytes(h0, SubSeq(fileName, 1,
                  IF Len(fileName) < NameFieldLen THEN Len(fileName) ELSE NameFieldLen), 0)
        h2 == SetBytes(h1, ModeField, 100)
        h3 == SetBytes(h2, OwnerField, 108)
        h4 == SetBytes(h3, OwnerField, 116)
        h5 == SetBytes(h4, PadStart(ToOctal(fileSize), 11) \o << 0 >>, 124)
        h6 == SetBytes(h5, PadStart(ToOctal(mtime), 11) \o << 0 >>, 136)
        h7 == SetBytes(h6, Spaces8, ChecksumOffset)
        h8 == SetBytes(h7, << 48 >>, 156)
        h9 == SetBytes(h8, Magic, 257)
    IN  SetBytes(h9, Version, 263)

\* a header whose checksum is summed before the magic and version are written
createTarHeader_ChecksumBeforeMagic(fileName, fileSize, mtime) ==
    LET h == HeaderFields(fileName, fileSize, mtime)
        early == SetBytes(SetBytes(h, Zeros(6), 257), Zeros(2), 263)
        checksum == SumBytes(early, BlockSize)
    IN  SetBytes(h, PadStart(ToOctal(checksum), 6) \o << 0, 32 >>, ChecksumOffset)

createTarHeader(fileName, fileSize, mtime) ==
    LET h == HeaderFields(fileName, fileSize, mtime)
        checksum == SumBytes(h, BlockSize)
    IN  SetBytes(h, PadStart(ToOctal(checksum), 6) \o << 0, 32 >>, ChecksumOffset)

\* an entry padded up to the next block whatever its size
Padding_AlwaysPads(size) == Zeros(BlockSize - (size % BlockSize))

\* the padding pushed after the content of a file
Padding(size) ==
    LET padding == BlockSize - (size % BlockSize)
    IN  IF padding < BlockSize THEN Zeros(padding) ELSE << >>

\* the entries of the files from the k-th on, concatenated
RECURSIVE Entries(_, _, _)
Entries(fs, times, k) ==
    IF k > Len(fs) THEN << >>
    ELSE createTarHeader(fs[k].path, Len(fs[k].content), times[k])
             \o fs[k].content
             \o Padding(Len(fs[k].content))
             \o Entries(fs, times, k + 1)

\* the bytes sent to the client: paths and contents as UTF-8
PathLens == { 1, 100, 101 }
ContentSizes == { 0, 512, 513 }
ClockSeconds == { 0, 1762300800 }

PathOf(i, n) == [k \in 1..n |-> IF k = 1 THEN 96 + i ELSE IF k % 7 = 0 THEN 47 ELSE 120]
ContentOf(i, n) == [k \in 1..n |-> (k + 40 * i) % 256]

\* n readings of the clock, which does not go back
ClockReadings(n) ==
    { times \in [1..n -> ClockSeconds] :
        \A j, k \in 1..n : j < k => times[j] <= times[k] }

PackageInputs ==
    UNION { [1..n -> PathLens \X ContentSizes] : n \in 0..MaxFiles }

\* one request; the handler keeps nothing from one request to the next
handlePackage ==
    /\ pkgResp = "none"
    /\ \E input \in PackageInputs :
       \E times \in ClockReadings(Len(input)) :
           LET fs == [i \in 1..Len(input) |->
                         [path |-> PathOf(i, input[i][1]),
                          content |-> ContentOf(i, input[i][2])]]
           IN  /\ pkgFiles' = fs
               /\ pkgTimes' = times
               /\ tarBuffer' = Entries(fs, times, 1) \o Zeros(2 * BlockSize)
    /\ pkgResp' = "application/gzip"
    /\ UNCHANGED notPackageVars

(***************************************************************************)
(* api.analytics: action (POST), loader (GET), readEvents and appendEvent, *)
(* each run from one await to the next.  An array is a reference: the      *)
(* store and the handlers hold it, push changes it for all of them.        *)
(***************************************************************************)
\* action: the request arrives; readEvents looks in memory first
PostArrives(r) ==
    /\ apc[r] = "idle"
    /\ \E app \in { "app", "none" } :
           /\ appParam' = [appParam EXCEPT ![r] = app]
           /\ IF app = "none"
              THEN /\ status' = [status EXCEPT ![r] = 400]
                   /\ apc' = [apc EXCEPT ![r] = "done"]
                   /\ UNCHANGED postEvents
              ELSE /\ UNCHANGED status
                   /\ IF inMemoryStore # 0
                      THEN /\ postEvents' = [postEvents EXCEPT ![r] = inMemoryStore]
                           /\ apc' = [apc EXCEPT ![r] = "push"]
                      ELSE /\ apc' = [apc EXCEPT ![r] = "readFile"]
                           /\ UNCHANGED postEvents
    /\ UNCHANGED << inMemoryStore, heap, dataFile, gpc, totalViews >>
    /\ UNCHANGED notAnalyticsVars

\* readEvents: readFile answered; a parsed file is stored, [] is not
PostReadFile(r) ==
    /\ apc[r] = "readFile"
    /\ heap' = [heap EXCEPT ![r] = dataFile.events]
    /\ inMemoryStore' = IF dataFile.exists THEN r ELSE inMemoryStore
    /\ postEvents' = [postEvents EXCEPT ![r] = r]
    /\ apc' = [apc EXCEPT ![r] = "push"]
    /\ UNCHANGED << dataFile, appParam, status, gpc, totalViews >>
    /\ UNCHANGED notAnalyticsVars

\* appendEvent: events.push(event); inMemoryStore.set(appName, events)
PostPush(r) ==
    /\ apc[r] = "push"
    /\ heap' = [heap EXCEPT ![postEvents[r]] = Append(@, r)]
    /\ inMemoryStore' = postEvents[r]
    /\ apc' = [apc EXCEPT ![r] = "writeFile"]
    /\ UNCHANGED << dataFile, appParam, postEvents, status, gpc, totalViews >>
    /\ UNCHANGED notAnalyticsVars

\* appendEvent: writeFile(JSON.stringify(events)) done or failed; 204
PostWriteFile(r) ==
    /\ apc[r] = "writeFile"
    /\ \E written \in BOOLEAN :
           dataFile' = IF written
                       THEN [exists |-> TRUE, events |-> heap[postEvents[r]]]
                       ELSE dataFile
    /\ status' = [status EXCEPT ![r] = 204]
    /\ apc' = [apc EXCEPT ![r] = "done"]
    /\ UNCHANGED << inMemoryStore, heap, appParam, postEvents, gpc, totalViews >>
    /\ UNCHANGED notAnalyticsVars

\* aggregateEvents(events).totalViews
aggregateEvents(evs) == Len(evs)

\* loader: the request arrives; answered at once when the app is in memory
GetArrives ==
    /\ gpc = "idle"
    /\ IF inMemoryStore # 0
       THEN /\ totalViews' = aggregateEvents(heap[inMemoryStore])
            /\ UNCHANGED gpc
       ELSE /\ gpc' = "readFile"
            /\ UNCHANGED totalViews
    /\ UNCHANGED << inMemoryStore, heap, dataFile, apc, appParam, postEvents, status >>
    /\ UNCHANGED notAnalyticsVars

\* loader: readFile answered
GetReadFile ==
    /\ gpc = "readFile"
    /\ heap' = [heap EXCEPT ![GetArray] = dataFile.events]
    /\ inMemoryStore' = IF dataFile.exists THEN GetArray ELSE inMemoryStore
    /\ totalViews' = aggregateEvents(dataFile.events)
    /\ gpc' = "idle"
    /\ UNCHANGED << dataFile, apc, appParam, postEvents, status >>
    /\ UNCHANGED notAnalyticsVars

(***************************************************************************)
(* handleFlyDeploy between mkdir and the write loop: the port is read from *)
(* the Dockerfile, fly.toml is generated unless one was submitted, and the *)
(* analytics tracker is injected into index.html.                          *)
(*                                                                         *)
(* Text is a sequence of tokens.  index.html is made of "<p>", "</body>",  *)
(* "</html>" and the tokens of a tracker script; a Dockerfile is a         *)
(* sequence of instructions, the argument of EXPOSE a string of decimal    *)
(* digits; fly.toml is the record of the values it sets.                   *)
(***************************************************************************)
DefaultPort == 3000

AppNames == { "my-app" }

Origin == <<"http://bolt.local">>

\* boltUrl: absent, window.location.origin, the same with a trailing slash
BoltUrls == { << >>, Origin, Origin \o <<"/">> }

\* boltUrl.replace(/\/$/, '')
StripTrailingSlash(url) ==
    IF Len(url) > 0 /\ url[Len(url)] = "/"
    THEN SubSeq(url, 1, Len(url) - 1)
    ELSE url

trackerScript(appName, boltUrl) ==
    <<"<script>_boltApp=", appName, ",_boltUrl=">>
        \o StripTrailingSlash(boltUrl) \o <<";_boltTrack()</script>">>

LastIndexOf(text, phrase) ==
    IF Includes(text, phrase)
    THEN CHOOSE k \in 0..(Len(text) - Len(phrase)) :
             /\ SubSeq(text, k + 1, k + Len(phrase)) = phrase
             /\ \A j \in (k + 1)..(Len(text) - Len(phrase)) :
                    SubSeq(text, j + 1, j + Len(phrase)) # phrase
    ELSE 0 - 1

\* the text with the phrase that starts at offset k replaced
ReplaceAt(text, k, phrase, replacement) ==
    IF k < 0 THEN text
    ELSE SubSeq(text, 1, k) \o replacement
            \o SubSeq(text, k + Len(phrase) + 1, Len(text))

Replace_LastOccurrence(text, phrase, replacement) ==
    ReplaceAt(text, LastIndexOf(text, phrase), phrase, replacement)

\* String.prototype.replace with a string pattern: the first occurrence
Replace(text, phrase, replacement) ==
    ReplaceAt(text, IndexOf(text, phrase), phrase, replacement)

InjectTracker(html, script) ==
    LET atBody == Replace(html, <<"</body>">>, script \o <<"</body>">>)
    IN  IF ~Includes(atBody, script)
        THEN Replace(atBody, <<"</html>">>, script \o <<"</html>">>)
        ELSE atBody

RECURSIVE ParseInt(_)
ParseInt(digits) ==
    IF digits = << >> THEN 0
    ELSE 10 * ParseInt(SubSeq(digits, 1, Len(digits) - 1)) + digits[Len(digits)]

RECURSIVE ToDigits(_)
ToDigits(n) ==
    IF n < 10 THEN << n >> ELSE ToDigits(n \div 10) \o << n % 10 >>

IsExpose(line) == line.op = "EXPOSE"

detectPortFromDockerfile_LastExpose(dockerfile) ==
    IF \E k \in 1..Len(dockerfile) : IsExpose(dockerfile[k])
    THEN ParseInt(dockerfile[CHOOSE k \in 1..Len(dockerfile) :
                    /\ IsExpose(dockerfile[k])
                    /\ \A j \in (k + 1)..Len(dockerfile) : ~IsExpose(dockerfile[j])].arg)
    ELSE DefaultPort

\* dockerfile.match(/EXPOSE\s+(\d+)/): the first match, parseInt of its digits
detectPortFromDockerfile(dockerfile) ==
    IF \E k \in 1..Len(dockerfile) : IsExpose(dockerfile[k])
    THEN ParseInt(dockerfile[CHOOSE k \in 1..Len(dockerfile) :
                    /\ IsExpose(dockerfile[k])
                    /\ \A j \in 1..(k - 1) : ~IsExpose(dockerfile[j])].arg)
    ELSE DefaultPort

generateFlyToml(appName, port) ==
    [ app |-> appName, PORT |-> ToDigits(port), internal_port |-> ToDigits(port) ]

Has(fs, name) == name \in DOMAIN fs

Put(fs, name, content) ==
    [ f \in DOMAIN fs \cup { name } |-> IF f = name THEN content ELSE fs[f] ]

\* a string is truthy when it is not empty
Truthy(fs, name) == Has(fs, name) /\ fs[name] # << >>

PrepareFiles(fs, appName, boltUrl) ==
    LET dockerfile == IF Truthy(fs, "Dockerfile") THEN fs["Dockerfile"] ELSE << >>
        port == detectPortFromDockerfile(dockerfile)
        withToml == IF ~Has(fs, "fly.toml")
                    THEN Put(fs, "fly.toml", generateFlyToml(appName, port))
                    ELSE fs
    IN  IF boltUrl # << >> /\ Truthy(withToml, "index.html")
        THEN Put(withToml, "index.html",
                 InjectTracker(withToml["index.html"],
                               trackerScript(appName, boltUrl)))
        ELSE withToml

(***************************************************************************)
(* The file sets a request can carry.                                      *)
(***************************************************************************)
HtmlTokens == { "<p>", "</body>", "</html>" }

PlainHtmls == UNION { [1..n -> HtmlTokens] : n \in 0..MaxHtmlLen }

\* pages that already carry the tracker of this app and origin
TrackedHtmls ==
    UNION { { SubSeq(h, 1, k) \o trackerScript(a, Origin) \o SubSeq(h, k + 1, Len(h)) :
                k \in 0..Len(h) } : h \in PlainHtmls, a \in AppNames }

Instructions ==
    { [op |-> "FROM", arg |-> << >>],
      [op |-> "EXPOSE", arg |-> <<8, 0>>],
      [op |-> "EXPOSE", arg |-> <<0, 8, 0, 8, 0>>] }

Dockerfiles == UNION { [1..n -> Instructions] : n \in 0..MaxDockerLines }

SubmittedFlyToml ==
    [ app |-> "my-app", PORT |-> <<3, 0, 0, 0>>, internal_port |-> <<3, 0, 0, 0>> ]

Sources == [ { "app.js" } -> { <<"code">> } ]

WithDockerfile(fs) == { fs } \cup { Put(fs, "Dockerfile", d) : d \in Dockerfiles }

WithIndex(fs) ==
    { fs } \cup { Put(fs, "index.html", h) : h \in PlainHtmls \cup TrackedHtmls }

WithFlyToml(fs) == { fs, Put(fs, "fly.toml", SubmittedFlyToml) }

FlyPrepare ==
    /\ prepPc = "idle"
    /\ \E src \in Sources, a \in AppNames, url \in BoltUrls :
       \E d \in WithDockerfile(src) : \E h \in WithIndex(d) : \E fs \in WithFlyToml(h) :
        /\ submitted' = [files |-> fs, flyAppName |-> a, boltUrl |-> url]
        /\ flyFiles' = PrepareFiles(fs, a, url)
    /\ prepPc' = "written"
    /\ UNCHANGED notPrepareVars

(***************************************************************************)
(* detectProject.  The repository holds two versions: the one of           *)
(* DockerDeploy.client.tsx (detectProjectClient below) and a later one     *)
(* that also decides isSPA and port (detectProject).  A snapshot maps file *)
(* names to contents; the content of package.json is the record of what    *)
(* JSON.parse finds in it, parses = FALSE when JSON.parse throws.          *)
(***************************************************************************)
DepNames == { "vite", "react-scripts", "next", "remix", "express" }

ScriptNames == { "build", "start" }

\* engines.node: absent, or a range
EngineRanges == { << >>, <<">=", "18", ".", "0">> }

DigitRuns == { "18", "0" }

Mains == { "", "server.js" }

PackageJsons ==
    [ parses : { TRUE }, scripts : SUBSET ScriptNames, main : Mains,
      deps : SUBSET DepNames, engines : EngineRanges ]
    \cup
    [ parses : { FALSE }, scripts : { {} }, main : { "" }, deps : { {} },
      engines : { << >> } ]

OtherFiles == { "requirements.txt", "index.html", "pnpm-lock.yaml", "server.js" }

Snapshots(n) ==
    UNION { { [ f \in names |-> "text" ] } \cup
            { [ f \in names \cup { "package.json" } |->
                  IF f = "package.json" THEN p ELSE "text" ] : p \in PackageJsons }
            : names \in { o \in SUBSET OtherFiles : Cardinality(o) <= n } }

HasFile(fs, name) == name \in DOMAIN fs

\* match(/(\d+)/)[1]: the first run of digits, "" when there is none
FirstDigits(range) ==
    IF \E k \in 1..Len(range) : range[k] \in DigitRuns
    THEN range[CHOOSE k \in 1..Len(range) :
                 /\ range[k] \in DigitRuns
                 /\ \A j \in 1..(k - 1) : range[j] \notin DigitRuns]
    ELSE ""

WithNodeVersion(pkg, r) ==
    IF FirstDigits(pkg.engines) # ""
    THEN [r EXCEPT !.nodeVersion = FirstDigits(pkg.engines)]
    ELSE r

WithPackageManager(fs, r) ==
    IF HasFile(fs, "pnpm-lock.yaml") THEN [r EXCEPT !.packageManager = "pnpm"]
    ELSE IF HasFile(fs, "yarn.lock") THEN [r EXCEPT !.packageManager = "yarn"]
    ELSE r

WithBuildScript(pkg, r) ==
    IF "build" \in pkg.scripts
    THEN [r EXCEPT !.hasBuildScript = TRUE, !.buildCommand = "npm run build"]
    ELSE r

PythonProject(fs, r) ==
    IF \/ HasFile(fs, "requirements.txt")
       \/ HasFile(fs, "pyproject.toml")
       \/ HasFile(fs, "setup.py")
    THEN [r EXCEPT !.type = "python",
                   !.startCommand = IF HasFile(fs, "main.py")
                                    THEN "python main.py" ELSE "python app.py"]
    ELSE r

StaticSite_IgnoresType(fs, r) ==
    IF HasFile(fs, "index.html")
    THEN [r EXCEPT !.type = "static", !.startCommand = "", !.buildOutputDir = "."]
    ELSE r

StaticSite(fs, r) ==
    IF r.type = "unknown" /\ HasFile(fs, "index.html")
    THEN [r EXCEPT !.type = "static", !.startCommand = "", !.buildOutputDir = "."]
    ELSE r

StaticPort(r) == IF r.type = "static" THEN [r EXCEPT !.port = 80] ELSE r

\* ---- DockerDeploy.client.tsx
ClientDefaults ==
    [ type |-> "unknown", hasPackageJson |-> FALSE, hasBuildScript |-> FALSE,
      buildCommand |-> "", startCommand |-> "", buildOutputDir |-> "dist",
      nodeVersion |-> "20", packageManager |-> "npm" ]

ClientStartCommand(pkg) ==
    IF "start" \in pkg.scripts THEN "npm run start"
    ELSE IF "serve" \in pkg.scripts THEN "npm run serve"
    ELSE IF "preview" \in pkg.scripts THEN "npm run preview"
    ELSE IF pkg.main # "" THEN "node " \o pkg.main
    ELSE "node index.js"

ClientFramework(pkg, r) ==
    IF "next" \in pkg.deps
    THEN [r EXCEPT !.buildOutputDir = ".next", !.startCommand = "npm run start"]
    ELSE IF "nuxt" \in pkg.deps \/ "nuxt3" \in pkg.deps
    THEN [r EXCEPT !.buildOutputDir = ".output"]
    ELSE IF "@remix-run/react" \in pkg.deps \/ "remix" \in pkg.deps
    THEN [r EXCEPT !.buildOutputDir = "build"]
    ELSE IF "vite" \in pkg.deps \/ "@vitejs/plugin-react" \in pkg.deps
    THEN [r EXCEPT !.buildOutputDir = "dist"]
    ELSE IF "react-scripts" \in pkg.deps
    THEN [r EXCEPT !.buildOutputDir = "build"]
    ELSE r

ClientNodeProject(fs, r) ==
    IF ~HasFile(fs, "package.json") THEN r
    ELSE LET pkg == fs["package.json"]
             node == [r EXCEPT !.type = "node", !.hasPackageJson = TRUE]
             parsed ==
                 IF ~pkg.parses THEN node
                 ELSE WithNodeVersion(pkg,
                        ClientFramework(pkg,
                          [WithBuildScript(pkg, node) EXCEPT
                              !.startCommand = ClientStartCommand(pkg)]))
         IN  WithPackageManager(fs, parsed)

detectProjectClient(fs) ==
    StaticSite(fs, PythonProject(fs, ClientNodeProject(fs, ClientDefaults)))

\* ---- the later version
Defaults ==
    [ type |-> "unknown", hasPackageJson |-> FALSE, hasBuildScript |-> FALSE,
      isSPA |-> FALSE, buildCommand |-> "", startCommand |-> "",
      buildOutputDir |-> "dist", nodeVersion |-> "20",
      packageManager |-> "npm", port |-> DefaultPort ]

IsNext(pkg) == "next" \in pkg.deps
IsRemix(pkg) == "@remix-run/react" \in pkg.deps \/ "remix" \in pkg.deps
IsNuxt(pkg) == "nuxt" \in pkg.deps \/ "nuxt3" \in pkg.deps
HasExpress(pkg) == pkg.deps \cap { "express", "fastify", "koa", "hapi" } # {}
IsVite(pkg) ==
    pkg.deps \cap { "vite", "@vitejs/plugin-react", "@vitejs/plugin-vue" } # {}
IsCRA(pkg) == "react-scripts" \in pkg.deps
IsAngular(pkg) == pkg.deps \cap { "@angular/core", "@angular/cli" } # {}
IsVue(pkg) == "vue" \in pkg.deps /\ ~IsNuxt(pkg)

Framework(pkg, r) ==
    IF IsNext(pkg)
    THEN [r EXCEPT !.buildOutputDir = ".next", !.startCommand = "npm run start",
                   !.port = DefaultPort]
    ELSE IF IsNuxt(pkg)
    THEN [r EXCEPT !.buildOutputDir = ".output", !.startCommand = "npm run start",
                   !.port = DefaultPort]
    ELSE IF IsRemix(pkg)
    THEN [r EXCEPT !.buildOutputDir = "build", !.startCommand = "npm run start",
                   !.port = DefaultPort]
    ELSE IF IsCRA(pkg)
    THEN [r EXCEPT !.buildOutputDir = "build"]
    ELSE IF IsVite(pkg) \/ IsAngular(pkg) \/ IsVue(pkg)
    THEN [r EXCEPT !.buildOutputDir = "dist"]
    ELSE r

StartCommand(fs, pkg, r) ==
    IF r.startCommand # "" THEN r
    ELSE IF "start" \in pkg.scripts THEN [r EXCEPT !.startCommand = "npm run start"]
    ELSE IF pkg.main # "" THEN [r EXCEPT !.startCommand = "node " \o pkg.main]
    ELSE IF HasExpress(pkg)
    THEN [r EXCEPT !.startCommand =
            IF HasFile(fs, "server.js") THEN "node server.js"
            ELSE IF HasFile(fs, "app.js") THEN "node app.js"
            ELSE IF HasFile(fs, "src/index.js") THEN "node src/index.js"
            ELSE "node index.js"]
    ELSE r

SinglePageApp(pkg, r) ==
    IF /\ r.hasBuildScript
       /\ ~(IsNext(pkg) \/ IsRemix(pkg) \/ IsNuxt(pkg) \/ HasExpress(pkg))
       /\ r.startCommand = ""
    THEN [r EXCEPT !.isSPA = TRUE, !.port = 80]
    ELSE r

NodeProject(fs, r) ==
    IF ~HasFile(fs, "package.json") THEN r
    ELSE LET pkg == fs["package.json"]
             node == [r EXCEPT !.type = "node", !.hasPackageJson = TRUE]
             parsed ==
                 IF ~pkg.parses THEN node
                 ELSE WithNodeVersion(pkg,
                        SinglePageApp(pkg,
                          StartCommand(fs, pkg,
                            Framework(pkg, WithBuildScript(pkg, node)))))
         IN  WithPackageManager(fs, parsed)

detectProject(fs) ==
    StaticPort(StaticSite(fs, PythonProject(fs, NodeProject(fs, Defaults))))

(***************************************************************************)
(* The files are collected once; each detection reads them.                *)
(***************************************************************************)
CollectFiles ==
    /\ DOMAIN snapshot = {}
    /\ snapshot' \in { fs \in Snapshots(MaxOtherFiles) : DOMAIN fs # {} }
    /\ UNCHANGED detections
    /\ UNCHANGED notDetectVars

DetectProject ==
    /\ DOMAIN snapshot # {}
    /\ Len(detections) < MaxDetections
    /\ detections' = Append(detections, [by |-> "detectProject",
                                         result |-> detectProject(snapshot)])
    /\ UNCHANGED snapshot
    /\ UNCHANGED notDetectVars

DetectProjectClient ==
    /\ DOMAIN snapshot # {}
    /\ Len(detections) < MaxDetections
    /\ detections' = Append(detections, [by |-> "detectProjectClient",
                                         result |-> detectProjectClient(snapshot)])
    /\ UNCHANGED snapshot
    /\ UNCHANGED notDetectVars

(***************************************************************************)
(* FileWatcher.  Time is counted in ticks of 500 ms; a timer fires at the  *)
(* tick it is due, the scan of the file tree takes any time.  A path is a  *)
(* sequence of segments, a content a sequence of characters.               *)
(***************************************************************************)
checkInterval == 2

DefaultDebounce == 1

\* options.debounceMs || 500: the default, or a delay longer than a poll
DebounceChoices == { DefaultDebounce, 3 }

FingerprintWindow == 100

\* String.prototype.substring: a negative index counts as 0
Substring(text, from, to) ==
    LET lo == IF from < 0 THEN 0 ELSE IF from > Len(text) THEN Len(text) ELSE from
        hi == IF to < 0 THEN 0 ELSE IF to > Len(text) THEN Len(text) ELSE to
    IN  IF lo <= hi THEN SubSeq(text, lo + 1, hi) ELSE SubSeq(text, hi + 1, lo)

\* content.length + (content.substring(0, 100) + content.substring(-100)):
\* the number is converted to its decimal digits and the strings are appended
Fingerprint(content) ==
    ToDigits(Len(content))
        \o Substring(content, 0, FingerprintWindow)
        \o Substring(content, 0 - FingerprintWindow, Len(content))

\* path.includes(ignorePath) for some ignorePath
ShouldIgnore(path) ==
    \E k \in 1..Len(Segments[path]) : Segments[path][k] \in ignorePaths

\* _getFileSnapshot: snapshot[fullPath] = fingerprint.length
FileSnapshot(fs) ==
    [ p \in { q \in DOMAIN fs : ~ShouldIgnore(q) } |-> Len(Fingerprint(fs[p])) ]

DetectChanges(oldSnapshot, newSnapshot) ==
    \/ \E p \in DOMAIN newSnapshot :
          p \notin DOMAIN oldSnapshot \/ oldSnapshot[p] # newSnapshot[p]
    \/ \E p \in DOMAIN oldSnapshot : p \notin DOMAIN newSnapshot

\* a timer that is armed only when none is pending
TriggerRestart_KeepsPending(pending, at) ==
    IF pending # NoTimer THEN pending ELSE at + debounceMs

\* _triggerRestart: clearTimeout(pending), then setTimeout(..., debounceMs)
TriggerRestart(pending, at) == at + debounceMs

Aborted == abortController # 0 /\ abortController \in aborted

LiveLoops == { l \in Loops : loops[l].pc \in { "scheduled", "scanning" } }

Construct ==
    /\ debounceMs = 0
    /\ debounceMs' \in DebounceChoices
    /\ UNCHANGED << isWatching, debounceTimer, abortController, aborted, loops,
                    fsFiles, wnow, restarts, detects, cancelled, edits >>
    /\ UNCHANGED notWatchVars

\* start(): a new AbortController and a new poll closure, whose first poll
\* runs at once up to its await
Start ==
    /\ debounceMs # 0
    /\ ~isWatching
    /\ \E l \in Loops :
        /\ loops[l].pc = "none"
        /\ \A k \in 1..(l - 1) : loops[k].pc # "none"
        /\ abortController' = l
        /\ loops' = [loops EXCEPT ![l] = [NoLoop EXCEPT !.pc = "scanning"]]
    /\ isWatching' = TRUE
    /\ UNCHANGED << debounceMs, debounceTimer, aborted, fsFiles, wnow, restarts,
                    detects, cancelled, edits >>
    /\ UNCHANGED notWatchVars

\* setTimeout(poll, checkInterval) fires
PollFires(l) ==
    /\ loops[l].pc = "scheduled"
    /\ loops[l].due = wnow
    /\ loops' = [loops EXCEPT ![l].pc =
                    IF ~isWatching \/ Aborted THEN "ended" ELSE "scanning"]
    /\ UNCHANGED << debounceMs, isWatching, debounceTimer, abortController,
                    aborted, fsFiles, wnow, restarts, detects, cancelled,
                    edits >>
    /\ UNCHANGED notWatchVars

\* poll resumes after `await this._getFileSnapshot()`
ScanDone(l) ==
    /\ loops[l].pc = "scanning"
    /\ LET currentSnapshot == FileSnapshot(fsFiles)
           hasChanges == DetectChanges(loops[l].lastFileSnapshot, currentSnapshot)
       IN  /\ IF hasChanges
              THEN /\ debounceTimer' = TriggerRestart(debounceTimer, wnow)
                   /\ detects' = Append(detects, wnow)
              ELSE UNCHANGED << debounceTimer, detects >>
           /\ loops' = [loops EXCEPT ![l] =
                          [pc |-> IF isWatching THEN "scheduled" ELSE "ended",
                           due |-> wnow + checkInterval,
                           lastFileSnapshot |-> currentSnapshot,
                           seen |-> fsFiles,
                           polled |-> TRUE]]
    /\ UNCHANGED << debounceMs, isWatching, abortController, aborted, fsFiles,
                    wnow, restarts, cancelled, edits >>
    /\ UNCHANGED notWatchVars

\* the debounce timer fires: onRestart()
DebounceFires ==
    /\ debounceTimer = wnow
    /\ debounceTimer' = NoTimer
    /\ restarts' = Append(restarts, [at |-> wnow, watching |-> isWatching])
    /\ UNCHANGED << debounceMs, isWatching, abortController, aborted, loops,
                    fsFiles, wnow, detects, cancelled, edits >>
    /\ UNCHANGED notWatchVars

Stop ==
    /\ isWatching
    /\ isWatching' = FALSE
    /\ debounceTimer' = NoTimer
    /\ aborted' = IF abortController # 0 THEN aborted \cup { abortController }
                  ELSE aborted
    /\ abortController' = 0
    /\ cancelled' = IF debounceTimer # NoTimer THEN cancelled \cup { debounceTimer }
                    ELSE cancelled
    /\ UNCHANGED << debounceMs, loops, fsFiles, wnow, restarts, detects, edits >>
    /\ UNCHANGED notWatchVars

\* the project's files change: a file is written, created or removed
EditFile ==
    /\ edits < MaxEdits
    /\ edits' = edits + 1
    /\ \E p \in { WatchedFile, IgnoredFile } :
        \/ /\ p \in DOMAIN fsFiles
           /\ fsFiles' = [ q \in DOMAIN fsFiles \ { p } |-> fsFiles[q] ]
        \/ \E content \in FileContents :
            /\ IF p \in DOMAIN fsFiles THEN fsFiles[p] # content ELSE TRUE
            /\ fsFiles' = [ q \in DOMAIN fsFiles \cup { p } |->
                              IF q = p THEN content ELSE fsFiles[q] ]
    /\ UNCHANGED << debounceMs, isWatching, debounceTimer, abortController,
                    aborted, loops, wnow, restarts, detects, cancelled >>
    /\ UNCHANGED notWatchVars

\* time passes once every timer that is due has fired
WatchTick ==
    /\ wnow < MaxWatchTime
    /\ debounceTimer # wnow
    /\ \A l \in Loops : ~(loops[l].pc = "scheduled" /\ loops[l].due = wnow)
    /\ wnow' = wnow + 1
    /\ UNCHANGED << debounceMs, isWatching, debounceTimer, abortController,
                    aborted, loops, fsFiles, restarts, detects, cancelled,
                    edits >>
    /\ UNCHANGED notWatchVars

(***************************************************************************)
(* The client handlers that stream a server log: handleOneClickDeploy from *)
(* the fetch on, and the dialog's handleBuildImage and handleDeployToFly.  *)
(* A body is a sequence of chunks; a chunk is a piece of ordinary log, a   *)
(* marker of the server, or one of the two halves of its failure marker.   *)
(***************************************************************************)
Handlers == { "oneClick", "buildImage", "deployToFly" }

\* the lines with which the server ends a good stream
DeployedMarker == "v App deployed successfully to Fly.io"

BuiltMarker == "v Image built successfully."

BuildFailedMarker == "x Build failed with exit code"

BodyChunks ==
    { "log", DeployedMarker, BuiltMarker, BuildFailedMarker, "x Deployment ", "failed" }

Bodies == UNION { [1..n -> BodyChunks] : n \in 0..MaxBodyLen }

\* response.body is null, or a stream of chunks
HttpResponses ==
    [ok : BOOLEAN, json : BOOLEAN, hasBody : { TRUE }, body : Bodies]
        \cup [ok : BOOLEAN, json : BOOLEAN, hasBody : { FALSE }, body : { << >> }]

\* the status the handler shows while it runs
RunningStatus(h) == IF h = "buildImage" THEN "building" ELSE "deploying"

\* the response is taken for a JSON error and thrown
RejectsResponse(h, r) ==
    IF h = "buildImage" THEN ~r.ok ELSE ~r.ok /\ r.json

\* what the handler looks for in the log once the stream has ended
FailsOnLog(h, text) == h = "oneClick" /\ HasFailureMarker(text)

\* the handler is called and fetch resolves
HandlerFetch ==
    /\ handlerPc = "idle"
    /\ \E h \in Handlers, r \in HttpResponses :
        /\ handler' = h
        /\ httpResponse' = r
        /\ handlerStatus' = RunningStatus(h)
    /\ chunksRead' = 0
    /\ handlerLog' = << >>
    /\ handlerPc' = "fetched"
    /\ UNCHANGED notHandlerVars

\* the check of response.ok, then response.body?.getReader()
HandlerChecks ==
    /\ handlerPc = "fetched"
    /\ IF RejectsResponse(handler, httpResponse)
       THEN /\ handlerStatus' = "error"
            /\ handlerPc' = "done"
       ELSE /\ handlerPc' = IF httpResponse.hasBody THEN "reading" ELSE "streamed"
            /\ UNCHANGED handlerStatus
    /\ UNCHANGED << handler, httpResponse, chunksRead, handlerLog >>
    /\ UNCHANGED notHandlerVars

\* reader.read() gives the next chunk, or done
HandlerRead ==
    /\ handlerPc = "reading"
    /\ IF chunksRead < Len(httpResponse.body)
       THEN /\ chunksRead' = chunksRead + 1
            /\ handlerLog' = Append(handlerLog, httpResponse.body[chunksRead + 1])
            /\ UNCHANGED handlerPc
       ELSE /\ handlerPc' = "streamed"
            /\ UNCHANGED << chunksRead, handlerLog >>
    /\ UNCHANGED << handler, httpResponse, handlerStatus >>
    /\ UNCHANGED notHandlerVars

\* reader.read() rejects
HandlerReadFails ==
    /\ handlerPc = "reading"
    /\ handlerStatus' = "error"
    /\ handlerPc' = "done"
    /\ UNCHANGED << handler, httpResponse, chunksRead, handlerLog >>
    /\ UNCHANGED notHandlerVars

\* the stream has ended: the status is settled
HandlerSettles ==
    /\ handlerPc = "streamed"
    /\ handlerStatus' = IF FailsOnLog(handler, handlerLog) THEN "error" ELSE "success"
    /\ handlerPc' = "done"
    /\ UNCHANGED << handler, httpResponse, chunksRead, handlerLog >>
    /\ UNCHANGED notHandlerVars

(***************************************************************************)
(* Specifications.                                                         *)
(***************************************************************************)
\* One invocation, with the output of its subprocesses.
NextDeploy ==
    \/ Tick
    \/ LifecycleStep(1)
    \/ DataStep(1)

SpecDeploy == Init /\ [][NextDeploy]_vars

\* Invocations that overlap in time, their subprocesses silent.
NextConc ==
    \/ Tick
    \/ \E i \in Inv : LifecycleStep(i)

SpecConc == Init /\ [][NextConc]_vars

\* The buffered model stream and one consumer of it.
NextStream ==
    \/ OllamaChunk
    \/ OllamaDone
    \/ OllamaThrows
    \/ ConsumerStart
    \/ ConsumerWake

SpecStream == Init /\ [][NextStream]_vars

\* The same with fullStream among the consumers.
NextBuffered ==
    \/ NextStream
    \/ FullStreamNext
    \/ FullStreamWake

SpecBuffered == Init /\ [][NextBuffered]_vars

\* The analytics endpoint under concurrent requests.
NextAnalytics ==
    \/ \E r \in Posts : PostArrives(r) \/ PostReadFile(r) \/ PostPush(r) \/ PostWriteFile(r)
    \/ GetArrives
    \/ GetReadFile

SpecAnalytics == Init /\ [][NextAnalytics]_vars

\* One fly-deploy request, up to the write loop.
NextPrepare == FlyPrepare

SpecPrepare == Init /\ [][NextPrepare]_vars

\* Detections made from one file snapshot.
NextDetect ==
    \/ CollectFiles
    \/ DetectProject
    \/ DetectProjectClient

SpecDetect == Init /\ [][NextDetect]_vars

\* One FileWatcher that keeps watching while the files change.
NextWatch ==
    \/ Construct
    \/ Start
    \/ \E l \in Loops : PollFires(l) \/ ScanDone(l)
    \/ DebounceFires
    \/ EditFile
    \/ WatchTick

SpecWatch == Init /\ [][NextWatch]_vars

\* One FileWatcher that is started, stopped and started again.
NextLifecycle ==
    \/ Construct
    \/ Start
    \/ Stop
    \/ \E l \in Loops : PollFires(l) \/ ScanDone(l)
    \/ DebounceFires
    \/ WatchTick

SpecLifecycle == Init /\ [][NextLifecycle]_vars

\* One run of a client handler that streams a server log.
NextHandler ==
    \/ HandlerFetch
    \/ HandlerChecks
    \/ HandlerRead
    \/ HandlerReadFails
    \/ HandlerSettles

SpecHandler == Init /\ [][NextHandler]_vars

\* One package request.
NextPackage == handlePackage

SpecPackage == Init /\ [][NextPackage]_vars

\* The deploy button of one chat.
NextClient ==
    \/ PreviewRefresh
    \/ CloseDialog
    \/ ClickDeploy
    \/ PackagingFails
    \/ SendDeploy
    \/ ReadChunk
    \/ ReadFails
    \/ ServerReportsFailure
    \/ ServerReportsSuccess
    \/ MetadataUpdated

SpecClient == Init /\ [][NextClient]_vars

\* The chat client: the conversation grows and is parsed.
NextGlue == ParseMessages

SpecGlue == Init /\ [][NextGlue]_vars

\* The server with one deploy/build request and one llmcall request in
\* flight.  The 10 ms timers fire and rm() returns.
NextLive ==
    \/ LifecycleStep(1)
    \/ NextStream

SpecLive ==
    /\ Init
    /\ [][NextLive]_vars
    /\ WF_vars(ConsumerWake)
    /\ WF_vars(FlyCleanup(1))
    /\ WF_vars(DockerBuildRmDone(1))

(***************************************************************************)
(* Properties of the deployment orchestrator.                              *)
(***************************************************************************)
ReportedSuccess(i) == Includes(log[i], SuccessBlock)
ReportedFailure(i) ==
    \E msg \in {NotCompleteMsg, ExitCodeMsg, SpawnErrorMsg} :
        Includes(log[i], FailedLine(msg) \o Troubleshooting)
HasSuccessPhrase(out) ==
    \/ Includes(out, <<"has been ", "deployed">>)
    \/ Includes(out, <<"deployed ", "successfully">>)
    \/ Includes(out, <<"Machines are ", "starting">>)
    \/ Includes(out, <<"Visit your ", "newly deployed app">>)
Finished(i) ==
    pc[i] = "done" /\ (resp[i] = "json500" \/ ctrl[i] = "closed")

\* C1: the success block is logged only if flyctl deploy closed with code 0
\* and the accumulated output holds a success phrase (however the output was
\* cut into chunks); exit code 0 without a phrase gives the failure block.
C1_SuccessNeedsExitZeroAndPhrase ==
    \A i \in Inv :
        /\ ReportedSuccess(i) =>
               /\ deployExit[i] = CloseEvent(0)
               /\ HasSuccessPhrase(deployOutput[i])
        /\ (deployExit[i] = CloseEvent(0) /\ HasSuccessPhrase(deployOutput[i]))
               => ReportedSuccess(i) /\ ~ReportedFailure(i)
        /\ (deployExit[i] = CloseEvent(0) /\ ~HasSuccessPhrase(deployOutput[i]))
               => /\ ~ReportedSuccess(i)
                  /\ Includes(log[i], FailedLine(NotCompleteMsg) \o Troubleshooting)

\* C1 witness: the phrase arrived cut over two deploy chunks (no other data
\* event happened), the exit code was 0, and success was reported.
C1_Witness ==
    /\ chunksLeft = MaxChunks - 2
    /\ deployOutput[1] = <<"has been ", "deployed">>
    /\ Includes(log[1], CreateHeader \o DeployHeader \o <<"has been ", "deployed">>)
    /\ deployExit[1] = CloseEvent(0)
    /\ ReportedSuccess(1)

\* C2: when an invocation's response has finished, its temporary directory
\* is gone.
C2_TempDirRemovedAtEnd ==
    \A i \in Inv :
        (Finished(i) /\ buildDir[i] # NoDir) => buildDir[i] \notin fsDirs

\* C3: when flyctl apps create fails (spawn error or non-zero exit) for a
\* reason other than 'already exists', the deploy step is not started and
\* the failure block is logged.
CreateFailed(i) ==
    /\ createExit[i] # NoEvent
    /\ createExit[i] # CloseEvent(0)
    /\ ~Includes(log[i], ReuseMessage)
    /\ ~Includes(log[i], AlreadyExists)

C3_CreateFailureAborts ==
    \A i \in Inv :
        CreateFailed(i) =>
            /\ deploy[i] = "none"
            /\ ~Includes(log[i], DeployHeader)
            /\ (Finished(i) => ReportedFailure(i))

\* C5: an 'already exists' report of flyctl apps create is logged as the
\* reuse message, never as the error text; the deploy step then starts and
\* alone decides the outcome.
C5_AlreadyExistsIsReuse ==
    \A i \in Inv :
        /\ ~Includes(log[i], AlreadyExists)
        /\ (Includes(log[i], ReuseMessage) /\ createExit[i] # NoEvent)
               => /\ deploy[i] # "none"
                  /\ Includes(log[i], DeployHeader)
        /\ (Includes(log[i], ReuseMessage) /\ Finished(i))
               => (ReportedSuccess(i) <=>
                      (deployExit[i] = CloseEvent(0)
                       /\ HasSuccessPhrase(deployOutput[i])))

\* C6: two invocations that overlap in time never have the same temporary
\* directory.
Active(i) ==
    /\ buildDir[i] # NoDir
    /\ ~Finished(i) \/ i \in rmPending

C6_NoSharedBuildDir ==
    \A i \in Inv, j \in Inv :
        (i # j /\ Active(i) /\ Active(j)) => buildDir[i] # buildDir[j]

(***************************************************************************)
(* Properties of the streams.                                              *)
(***************************************************************************)
\* C7: every log stream is closed once its subprocess has emitted 'close' or
\* 'error', and the stream of toDataStreamResponse is closed or errored once
\* the model stream has completed or failed.
C7_StreamsTerminate ==
    /\ \A i \in Inv :
           (dockerBuild[i] \in {"closed", "errored"} \/ deploy[i] \in {"closed", "errored"})
               ~> (ctrl[i] = "closed")
    /\ (consumer = "toDataStreamResponse" /\ (streamComplete \/ streamError))
           ~> (outcome \in {"closed", "errored"})

\* C7 witness: the model stream completed after buffering something and the
\* response stream was closed; docker build closed and its log stream too.
C7_Witness ==
    /\ consumer = "toDataStreamResponse"
    /\ streamComplete
    /\ Len(delivered) > 0
    /\ outcome = "closed"
    /\ dockerBuild[1] = "closed"
    /\ ctrl[1] = "closed"

(***************************************************************************)
(* The workbench calls against the parser events.                          *)
(***************************************************************************)
ActionEvents == { e \in { events[k] : k \in 1..Len(events) } : e.type # "artifact" }

ActionIds == { << e.msg, e.n >> : e \in ActionEvents }

EventsOf(a, ev) ==
    { k \in 1..Len(events) :
        /\ events[k].type # "artifact"
        /\ << events[k].msg, events[k].n >> = a
        /\ events[k].ev = ev }

CallsOf(a, op) ==
    { k \in 1..Len(calls) :
        /\ calls[k].type # "artifact"
        /\ << calls[k].msg, calls[k].n >> = a
        /\ calls[k].op = op }

TypeOf(a) == (CHOOSE e \in ActionEvents : << e.msg, e.n >> = a).type

InOrder(a) ==
    /\ Cardinality(EventsOf(a, "actionOpen")) = 1
    /\ Cardinality(EventsOf(a, "actionClose")) <= 1
    /\ \A k \in EventsOf(a, "actionStream") :
           /\ \A o \in EventsOf(a, "actionOpen") : o < k
           /\ \A c \in EventsOf(a, "actionClose") : k < c
    /\ \A c \in EventsOf(a, "actionClose") : \A o \in EventsOf(a, "actionOpen") : o < c

\* C9: when the events of an action come as open, stream events, close,
\* addAction is called at most once for it, exactly once when a file action
\* has opened or another action has closed, and before every runAction for
\* it.
C9_AddActionOnceAndFirst ==
    \A a \in ActionIds :
        InOrder(a) =>
            /\ Cardinality(CallsOf(a, "addAction")) <= 1
            /\ (TypeOf(a) = "file" \/ EventsOf(a, "actionClose") # {}) =>
                   Cardinality(CallsOf(a, "addAction")) = 1
            /\ \A r \in CallsOf(a, "runAction") :
                   \E d \in CallsOf(a, "addAction") : d < r

\* a streamed and closed file action and a closed shell action, in order
C9_Witness ==
    \E a, b \in ActionIds :
        /\ TypeOf(a) = "file" /\ TypeOf(b) = "shell"
        /\ InOrder(a) /\ InOrder(b)
        /\ EventsOf(a, "actionStream") # {} /\ EventsOf(a, "actionClose") # {}
        /\ CallsOf(b, "runAction") # {}

EachOnce ==
    \A j, k \in 1..Len(events) :
        (j < k /\ events[j] = events[k]) => events[j].ev = "actionStream"

\* C10: over any calls of parseMessages, each artifact-open, action-open,
\* action-close and artifact-close event reaches the callbacks at most once.
C10_EachEventAtMostOnce == EachOnce

\* C10 as amended: the same, in a production build or as long as every call
\* had isLoading true, that is as long as parseMessages has not reset the
\* parser.
C10_EachEventAtMostOnceUnlessReset == (~dev \/ ~idleParsed) => EachOnce

\* a closed artifact parsed over more than one call of a production build,
\* the last with isLoading false
C10_Witness ==
    /\ ~dev /\ idleParsed /\ parseCalls >= 2
    /\ \E k \in 1..Len(events) : events[k].ev = "artifactClose"
    /\ \E k \in 1..Len(events) : events[k].ev = "actionClose"

(***************************************************************************)
(* Redeploy in place.                                                      *)
(***************************************************************************)
\* u reads https://N.fly.dev
IsFlyUrl(u) ==
    /\ Len(u) > 5
    /\ Head(u) = "https://"
    /\ SubSeq(u, Len(u) - 3, Len(u)) = << ".", "fly", ".", "dev" >>

\* the N of https://N.fly.dev
AppNameIn(u) == SubSeq(u, 2, Len(u) - 4)

RECURSIVE ParseOctal(_, _)
ParseOctal(field, acc) ==
    IF field = << >> \/ Head(field) < 48 \/ Head(field) > 55 THEN acc
    ELSE ParseOctal(Tail(field), 8 * acc + (Head(field) - 48))

\* the bytes of a field up to its first NUL
UpToNul(field) ==
    LET nuls == { k \in 1..Len(field) : field[k] = 0 }
        first == IF nuls = {} THEN Len(field) + 1
                 ELSE CHOOSE k \in nuls : \A j \in nuls : k <= j
    IN  SubSeq(field, 1, first - 1)

Blocks(size) == (size + BlockSize - 1) \div BlockSize

\* name field, octal size field, that many content bytes, then on to the
\* next block boundary, until a block of zeros or the end
RECURSIVE ReadArchive(_, _)
ReadArchive(buf, off) ==
    IF off + BlockSize > Len(buf) \/ \A k \in 1..BlockSize : buf[off + k] = 0
    THEN << >>
    ELSE LET size == ParseOctal(SubSeq(buf, off + 125, off + 136), 0)
         IN  << [at |-> off,
                 path |-> UpToNul(SubSeq(buf, off + 1, off + NameFieldLen)),
                 content |-> SubSeq(buf, off + BlockSize + 1, off + BlockSize + size)] >>
                 \o ReadArchive(buf, off + BlockSize + BlockSize * Blocks(size))

Packaged == pkgResp # "none"

\* C11: reading the archive entry by entry gives back the input paths with
\* their contents, in order, for every path length and file size.
C11_ArchiveRoundTrip ==
    Packaged =>
        LET es == ReadArchive(tarBuffer, 0)
        IN  /\ Len(es) = Len(pkgFiles)
            /\ \A k \in 1..Len(es) :
                   /\ es[k].path = pkgFiles[k].path
                   /\ es[k].content = pkgFiles[k].content

\* the header block of the k-th entry read
HeaderOf(es, k) == SubSeq(tarBuffer, es[k].at + 1, es[k].at + BlockSize)

\* C12: the checksum stored in every header is the sum of its 512 bytes with
\* the checksum field counted as spaces, and the header it was summed over
\* holds mode, uid, gid, size, mtime, type flag, magic and version unchanged.
C12_ChecksumOverFinishedHeader ==
    Packaged =>
        LET es == ReadArchive(tarBuffer, 0)
        IN  /\ Len(es) = Len(pkgFiles)
            /\ \A k \in 1..Len(es) :
                   LET h == HeaderOf(es, k)
                   IN  /\ ParseOctal(SubSeq(h, ChecksumOffset + 1, ChecksumOffset + 8), 0)
                              = SumRange(SetBytes(h, Spaces8, ChecksumOffset), 1, BlockSize)
                       /\ SubSeq(h, 101, 108) = ModeField
                       /\ SubSeq(h, 109, 116) = OwnerField
                       /\ SubSeq(h, 117, 124) = OwnerField
                       /\ ParseOctal(SubSeq(h, 125, 136), 0) = Len(pkgFiles[k].content)
                       /\ ParseOctal(SubSeq(h, 137, 148), 0) = pkgTimes[k]
                       /\ h[157] = 48
                       /\ SubSeq(h, 258, 263) = Magic
                       /\ SubSeq(h, 264, 265) = Version
                       /\ \A j \in 266..BlockSize : h[j] = 0

\* two headers, one of a file that needs padding, at a clock other than 0
C12_Witness ==
    /\ Packaged
    /\ Len(pkgFiles) = 2
    /\ Len(pkgFiles[1].content) = 513
    /\ Len(pkgFiles[1].path) = 100
    /\ pkgTimes[2] > 0

\* where the k-th header starts
RECURSIVE HeaderStart(_)
HeaderStart(k) ==
    IF k = 1 THEN 0
    ELSE HeaderStart(k - 1) + BlockSize + BlockSize * Blocks(Len(pkgFiles[k - 1].content))

\* C13: the archive is, for each file in order, a 512-byte header and the
\* content zero-padded to the next multiple of 512 (nothing added when the
\* size is 0 or a multiple of 512), then 1024 zero bytes; every header starts
\* at a multiple of 512 and the length is the sum of 512 + 512*ceil(size/512)
\* over the files, plus 1024.
C13_ArchiveLayout ==
    Packaged =>
        LET n == Len(pkgFiles)
            end == HeaderStart(n + 1)
        IN  /\ Len(tarBuffer) = end + 2 * BlockSize
            /\ \A j \in (end + 1)..Len(tarBuffer) : tarBuffer[j] = 0
            /\ \A k \in 1..n :
                   LET at == HeaderStart(k)
                       size == Len(pkgFiles[k].content)
                   IN  /\ at % BlockSize = 0
                       /\ tarBuffer[at + 157] = 48
                       /\ ParseOctal(SubSeq(tarBuffer, at + 125, at + 136), 0) = size
                       /\ SubSeq(tarBuffer, at + BlockSize + 1, at + BlockSize + size)
                              = pkgFiles[k].content
                       /\ \A j \in (at + BlockSize + size + 1)..HeaderStart(k + 1) :
                              tarBuffer[j] = 0

\* an empty file, then a file of exactly one block
C13_Witness ==
    /\ Packaged
    /\ Len(pkgFiles) = 2
    /\ Len(pkgFiles[1].content) = 0
    /\ Len(pkgFiles[2].content) = BlockSize
    /\ Len(tarBuffer) = 5 * BlockSize

\* C14: when reading the response fails after some chunks, the deploy ends
\* with status error, the log ends with those chunks in arrival order and
\* then the ERROR line, no URL is shown and the stored URL is the one the
\* deploy started with.
C14_ReadFailureKeepsPartialLog ==
    deployError = ReadErrorMsg =>
        /\ hpc = "idle"
        /\ deployStatus = "error"
        /\ Len(deployLog) >= Len(fullLog) + 5
        /\ SubSeq(deployLog, 1, 2) = << PreparingLine, BuildingLine >>
        /\ SubSeq(deployLog, 4, Len(deployLog)) = fullLog \o ErrorLine(ReadErrorMsg)
        /\ deployedAppUrl = NoUrl
        /\ deployedUrl = currentMetadata

\* the read failed after two chunks
C14_Witness ==
    /\ deployError = ReadErrorMsg
    /\ Len(fullLog) = 2
    /\ fullLog[1] = "log"
    /\ deployStatus = "error"

(***************************************************************************)
(* Analytics.                                                              *)
(***************************************************************************)
\* what a GET arriving now is answered with
FollowingGet ==
    IF inMemoryStore # 0 THEN aggregateEvents(heap[inMemoryStore])
    ELSE aggregateEvents(dataFile.events)

Recorded == { r \in Posts : appParam[r] = "app" /\ status[r] = 204 }

\* C15: once the POSTs have been answered, a following GET returns
\* totalViews equal to the number of POSTs with an app parameter that were
\* answered 204, whatever their interleaving.
C15_EveryPostCounted ==
    (gpc = "idle" /\ \A r \in Posts : apc[r] \in { "idle", "done" })
        => FollowingGet = Cardinality(Recorded)

(***************************************************************************)
(* C18: the deploy endpoint answers a non-POST request with 405, a body    *)
(* lacking imageName or files with 400, an unknown action with 400, and a  *)
(* missing flyctl or an exception with 500, each time with a JSON error    *)
(* body; in the 405, 400 and flyctl-missing cases the invocation has       *)
(* created no temporary directory and spawned none of flyctl apps create,  *)
(* flyctl deploy, docker build.                                            *)
(***************************************************************************)
NothingStarted(i) ==
    /\ buildDir[i] = NoDir
    /\ createApp[i] = "none"
    /\ deploy[i] = "none"
    /\ dockerBuild[i] = "none"

KnownAction(r) == r.action \in { "package", "build", "fly-deploy" }

Prepared == prepPc = "written"

PageIn == submitted.files["index.html"]

PageOut == flyFiles["index.html"]

ScriptIn == trackerScript(submitted.flyAppName, submitted.boltUrl)

InjectionRuns ==
    /\ Prepared
    /\ submitted.boltUrl # << >>
    /\ Has(submitted.files, "index.html")
    /\ PageIn # << >>

Occurrences(text, phrase) ==
    Cardinality({ k \in 0..(Len(text) - Len(phrase)) :
                    SubSeq(text, k + 1, k + Len(phrase)) = phrase })

\* the page with the script put in front of the first occurrence of a tag
InsertedBeforeFirst(page, tag, script) ==
    LET k == CHOOSE n \in 1..Len(page) :
                 page[n] = tag /\ \A j \in 1..(n - 1) : page[j] # tag
    IN  SubSeq(page, 1, k - 1) \o script \o SubSeq(page, k, Len(page))

HasTag(page, tag) == \E n \in 1..Len(page) : page[n] = tag

OtherFilesUnchanged ==
    \A f \in DOMAIN submitted.files \ { "index.html" } :
        flyFiles[f] = submitted.files[f]

(***************************************************************************)
(* C16: when the submitted index.html already contains the tracker script  *)
(* of this app and origin, the page that is written contains it exactly    *)
(* once.                                                                   *)
(***************************************************************************)
C16_InjectionIdempotent ==
    (InjectionRuns /\ Includes(PageIn, ScriptIn))
        => Occurrences(PageOut, ScriptIn) = 1

ExposedPort ==
    LET d == IF Has(submitted.files, "Dockerfile")
             THEN submitted.files["Dockerfile"] ELSE << >>
        exposes == { n \in 1..Len(d) : d[n].op = "EXPOSE" }
    IN  IF exposes = {} THEN 3000
        ELSE ParseInt(d[CHOOSE n \in exposes : \A j \in exposes : n <= j].arg)

TomlHasPort(toml, port) ==
    /\ ParseInt(toml.internal_port) = port
    /\ ParseInt(toml.PORT) = port

Pkg == snapshot["package.json"]

ViteProject ==
    /\ DOMAIN snapshot # {}
    /\ HasFile(snapshot, "package.json")
    /\ Pkg.parses
    /\ "vite" \in Pkg.deps
    /\ "build" \in Pkg.scripts
    /\ "start" \notin Pkg.scripts
    /\ Pkg.deps \cap { "next", "nuxt", "nuxt3", "remix", "@remix-run/react" } = {}

SameVersionSameResult ==
    \A m \in 1..Len(detections), n \in 1..Len(detections) :
        detections[m].by = detections[n].by
            => detections[m].result = detections[n].result

C22_ControllerUsedOnlyWhileOpen ==
    \A i \in Inv :
        /\ i \notin uncaught
        /\ pc[i] = "done" /\ resp[i] = "stream" => ctrl[i] = "closed"

(***************************************************************************)
(* C27: however the model output is split into chunks, the concatenation   *)
(* of the buffered chunks is the suffix of the output that starts at the   *)
(* first '<boltArtifact', and is empty while the output holds no such tag. *)
(***************************************************************************)
RECURSIVE Joined(_)
Joined(cs) == IF cs = << >> THEN << >> ELSE Head(cs) \o Joined(Tail(cs))

TagStarts(text) ==
    { k \in 1..(Len(text) - 1) : text[k] = "<bolt" /\ text[k + 1] = "Artifact" }

FromFirstTag(text) ==
    IF TagStarts(text) = {} THEN << >>
    ELSE SubSeq(text, CHOOSE k \in TagStarts(text) : \A j \in TagStarts(text) : k <= j,
                Len(text))

C27_BufferIsSuffixFromTag == Joined(chunks) = FromFirstTag(modelText)

\* the tag arrived in two chunks, '<bolt' and 'Artifact'
C27_Witness ==
    /\ yielded = 2
    /\ modelText = <<"<bolt", "Artifact">>
    /\ chunks = << <<"<bolt", "Artifact">> >>

(***************************************************************************)
(* C23: whatever the interleaving of pushes and polls, what a consumer has *)
(* received is a prefix of the buffered chunks, each once and in the order *)
(* of the buffer; when the consumer's stream ends, closed or with the      *)
(* producer's error, every buffered chunk has been delivered before.       *)
(***************************************************************************)
AsDelivered(chunk) ==
    IF consumer = "fullStream" THEN TextDelta(chunk) ELSE Formatted(chunk)

C23_EveryChunkOnceInOrder ==
    /\ Len(delivered) <= Len(chunks)
    /\ \A k \in 1..Len(delivered) : delivered[k] = AsDelivered(chunks[k])
    /\ (outcome \in { "closed", "errored" } \/ cpc = "returned")
          => Len(delivered) = Len(chunks)

\* fullStream: two chunks delivered, then the producer's error
C23_Witness ==
    /\ consumer = "fullStream"
    /\ streamError
    /\ outcome = "errored"
    /\ Len(chunks) = 2
    /\ Len(delivered) = 2

\* C24: once stop() has returned, onRestart is not invoked until start() is
\* called again: every onRestart call is made while the watcher is watching.
C24_NoRestartAfterStop ==
    \A k \in 1..Len(restarts) : restarts[k].watching

\* C25: at most one poll loop of a watcher is alive at any time.
C25_AtMostOnePollLoop == Cardinality(LiveLoops) <= 1

LastChars(content) ==
    SubSeq(content,
           IF Len(content) > FingerprintWindow
           THEN Len(content) - FingerprintWindow + 1 ELSE 1,
           Len(content))

ContentChanged(before, after) ==
    \/ Len(before) # Len(after)
    \/ Substring(before, 0, FingerprintWindow) # Substring(after, 0, FingerprintWindow)
    \/ LastChars(before) # LastChars(after)

FilesChanged(old, new) ==
    \E p \in (DOMAIN old) \cup (DOMAIN new) :
        /\ ~ShouldIgnore(p)
        /\ \/ p \notin DOMAIN old
           \/ p \notin DOMAIN new
           \/ ContentChanged(old[p], new[p])

\* loop l finishes a scan that is not its first
LaterPoll(l) ==
    /\ loops[l].pc = "scanning"
    /\ loops[l].polled
    /\ loops'[l].pc # "scanning"

\* C28: when a watched, non-ignored file was added, deleted, or changed in
\* its length or its first or last 100 characters between two consecutive
\* polls of a loop, the later poll detects a change and schedules a restart.
C28_ChangeDetected ==
    [][\A l \in Loops :
          LaterPoll(l) /\ FilesChanged(loops[l].seen, fsFiles)
              => /\ Len(detects') = Len(detects) + 1
                 /\ debounceTimer' = wnow + debounceMs]_vars

RestartAt(t) == \E k \in 1..Len(restarts) : restarts[k].at = t

\* the detection at detects[j] is the last of its run, the run is over, and
\* stop() did not clear its timer
RunEnded(j) ==
    /\ wnow > detects[j] + debounceMs
    /\ \A i \in 1..Len(detects) :
          i > j => detects[i] > detects[j] + debounceMs
    /\ detects[j] + debounceMs \notin cancelled

\* C29: onRestart is invoked only debounceMs after the most recent change
\* detection, and a run of detections less than debounceMs apart yields
\* exactly one onRestart call, debounceMs after the last of them.
C29_Debounced ==
    /\ \A k \in 1..Len(restarts) :
          /\ \E j \in 1..Len(detects) : detects[j] = restarts[k].at - debounceMs
          /\ \A i \in 1..Len(detects) :
                ~(detects[i] > restarts[k].at - debounceMs /\ detects[i] < restarts[k].at)
          /\ \A i \in 1..(k - 1) : restarts[i].at < restarts[k].at
    /\ \A j \in 1..Len(detects) :
          RunEnded(j) => RestartAt(detects[j] + debounceMs)

\* two detections less than debounceMs apart were answered by one onRestart
C29_Witness ==
    /\ Len(detects) = 2
    /\ detects[1] < detects[2]
    /\ detects[2] < detects[1] + debounceMs
    /\ Len(restarts) = 1
    /\ restarts[1].at = detects[2] + debounceMs

\* the button is disabled for want of changes
Locked == deployedAtSignal # 0 - 1 /\ refreshSignal = deployedAtSignal

\* C26: the button is locked with 'No changes since last deploy' only while
\* the refresh signal is the one the files of the last successful deploy were
\* collected at; a refresh during the deploy leaves it unlocked.
C26_LockedOnlyWithoutChanges == Locked => refreshSignal = deployedFrom

\* C30: a one-click deploy that ended with deployStatus 'error' left
\* deployedUrl, deployedAt and deployedAtSignal as they were at the click.
C30_ErrorLeavesMetadataAndLock ==
    (hpc = "idle" /\ deployStatus = "error") =>
        /\ deployedUrl = atClick.deployedUrl
        /\ deployedAt = atClick.deployedAt
        /\ deployedAtSignal = atClick.deployedAtSignal

\* a redeploy of a deployed, locked chat failed on a failure marker
C30_Witness ==
    /\ hpc = "idle"
    /\ deployStatus = "error"
    /\ deployError = MarkerErrorMsg
    /\ deployedUrl # NoUrl
    /\ deployedAt > 0
    /\ deployedAtSignal # 0 - 1

SuccessMarker(h) == IF h = "buildImage" THEN BuiltMarker ELSE DeployedMarker

CarriesFailure(text) ==
    HasFailureMarker(text) \/ \E k \in 1..Len(text) : text[k] = BuildFailedMarker

\* C21: a client handler shows 'success' only when the response had a body
\* whose log holds the server's success marker and no failure marker, and
\* was not an error response.
C21_SuccessOnlyOnSuccessMarker ==
    handlerStatus = "success" =>
        /\ httpResponse.ok
        /\ httpResponse.hasBody
        /\ \E k \in 1..Len(handlerLog) : handlerLog[k] = SuccessMarker(handler)
        /\ ~CarriesFailure(handlerLog)

============================================================================
